---- MODULE Spec2Model ----
(***************************************************************************)
(* Streaming response normalisation and tool-call extraction of mlx-studio *)
(*                                                                         *)
(*   - GGUFAnthropicAdapter._generate_stream_async (messages protocol)     *)
(*   - GGUFAnthropicAdapter.generate_stream (thread/queue bridge)          *)
(*   - mistral_adapter.patched_generate_stream (chunk protocol)            *)
(*   - gpt_oss_adapter.patched_generate_stream and the Harmony parser      *)
(*   - GGUFBackend.generate_stream (SSE lines), GGUFServerManager          *)
(*   - KVCacheManager, patches.resolve_alias_with_backend                  *)
(*   - ModelManager.start_download, the pre-warm system of routers/cache   *)
(*   - GGUFAnthropicAdapter._convert_system_to_messages                    *)
(*                                                                         *)
(* Text is a sequence of one-character strings, so that substring tests    *)
(* and the cutting of a text into deltas are computed, not assumed.        *)
(***************************************************************************)
EXTENDS Integers, Sequences, FiniteSets, TLC

VARIABLES
    \* ---- GGUFAnthropicAdapter._generate_stream_async ----
    pc,                    \* "start" | "streaming" | "done" | "idle"
    backend_text,          \* the text the backend will deliver (fixed per response)
    backend_pos,           \* number of its characters already delivered
    chunk_count,           \* chunks consumed so far
    events,                \* the events yielded so far, in order
    accumulated_text,
    current_block_index,
    text_block_started,
    in_tool_call_xml,
    finish_reason,
    prompt_tokens,
    completion_tokens,
    streaming_tool_calls,  \* index -> [id, name, arguments]
    tool_calls,            \* the tool calls resolved after the loop
    context_warned,        \* history: the advisory block was emitted
    interrupted,           \* history: the delta sequence raised mid-stream
    start_failed,          \* history: backend.generate_stream raised
    content_sent,          \* history: the backend's `content`, all deltas joined
    reasoning_sent,        \* history: its `reasoning_content`, all deltas joined
    fragments_received,    \* history: the tool-call fragments read, in arrival order
    \* ---- GGUFAnthropicAdapter.generate_stream (thread/queue bridge) ----
    p_pc,                  \* producer thread: "run" | "finally" | "exit" | "idle"
    c_pc,                  \* consuming generator, see ConsumerStates
    gen_total,             \* events the async emitter yields before it ends
    gen_raises,            \* whether it then ends by raising
    produced,              \* events the emitter has yielded so far (1..produced)
    event_queue,
    done_event,
    error_holder,          \* "" (None) or the exception
    yielded,               \* history: what the consumer has yielded, in order
    backend_reads,         \* deltas the producer has read from the backend
    reads_at_close,        \* history: backend_reads when the client closed
    \* ---- mistral_adapter.patched_generate_stream ----
    m_pc,                  \* "streaming" | "done" | "idle"
    m_text,                \* the text the backend will deliver
    m_pos,                 \* number of its characters already delivered
    m_count,               \* chunks consumed so far
    m_final_seen,          \* the backend sent its chunk with a finish reason
    lookback_buffer,       \* deque(maxlen=LOOKBACK_SIZE)
    text_parts,
    all_chunks,
    tool_marker_detected,
    m_accumulated_text,
    m_out,                 \* the chunks yielded so far, in order
    \* ---- parse_mistral_tool_calls, called on one text ----
    parse_pc,              \* "ready" | "once" | "twice" | "idle"
    parse_text,            \* the text handed to the parser
    parse_first,           \* the records returned by the first call
    parse_second,          \* the records returned by the second call
    \* ---- gpt_oss_adapter.patched_generate_stream ----
    o_pc,                  \* "streaming" | "done" | "idle"
    o_text,                \* the text the backend will deliver
    o_pos,                 \* number of its tokens already delivered
    o_final_seen,          \* the backend sent its last chunk
    o_accumulated_text,    \* accumulated_text
    buffered_chunks,       \* buffered_chunks
    o_out,                 \* the chunks yielded, in order
    \* ---- GGUFBackend.generate_stream (the SSE line loop) ----
    sse_pc,                \* "reading" | "done" | "idle"
    sse_lines,             \* the lines the response will deliver
    sse_pos,               \* number of its lines already read
    sse_out,               \* the chunks yielded, in order
    \* ---- patched_generate_stream of both dialect wrappers: the choice of branch ----
    w_pc,                  \* "called" | "passing" | "processing" | "done" | "idle"
    w_wrapper,             \* "gpt_oss" | "mistral"
    w_model,               \* request.model, a sequence of tokens
    w_tools,               \* request.tools
    w_source,              \* the chunks original_generate_stream will produce
    w_produced,            \* number of them it has produced
    w_out,                 \* the chunks the wrapper has yielded, in order
    \* ---- KVCacheManager ----
    kv_pc,                 \* "ready" | "clearing" | "deleting" | "idle"
    slots,                 \* self.slots: the keys of the OrderedDict, oldest first
    persisted_keys,        \* self.persisted_keys
    kv_lock,               \* self.lock: "" (free) or the call that holds it
    kv_caller,             \* the caller of delete_persisted: "" or "clear"
    delete_key,            \* the cache_key of the delete_persisted call in progress
    clear_pending,         \* what is left of list(self.persisted_keys) in clear
    recency,               \* history: the keys in memory, least recently used first
    kv_evicted,            \* history: the keys the latest store_cache call evicted
    \* ---- patches.resolve_alias_with_backend ----
    a_pc,                  \* "called" | "returned" | "idle"
    a_model_id,            \* model_id, a sequence of tokens
    _MODEL_ALIASES,        \* the alias dict: its (key, value) pairs in order
    _ROUTING_CONFIG,       \* the routing configuration
    a_result,              \* the tuple returned: resolved model id and backend
    \* ---- GGUFServerManager ----
    srv_pc,                \* "ready" | "idle"
    process,               \* self.process: 0 (None) or the subprocess it refers to
    current_model,         \* self.current_model ("" for None)
    port,                  \* self.port
    alive,                 \* the subprocesses spawned by the manager that are running
    spawned,               \* number of subprocess.Popen calls that have succeeded
    last_call,             \* history: the latest call or exit, its model_path, whether it raised
    \* ---- ModelManager.start_download and its download threads ----
    dl_pc,                 \* "ready" | "idle"
    downloads,             \* self.downloads: repo_id -> status ("" when absent)
    dl_entered,            \* per repo, calls past the lock that have not started their thread
    dl_created,            \* per repo, threads started that have not reached line 152
    dl_running,            \* per repo, threads inside snapshot_download
    dl_calls,              \* number of start_download calls made
    \* ---- routers/cache.py pre-warm system ----
    pw_pc,                 \* "ready" while the pre-warm system serves, else "idle"
    is_warming,            \* _prewarm_state.is_warming
    last_system_prompt_hash,\* _prewarm_state.last_system_prompt_hash
    last_model_used,       \* _prewarm_state.last_model_used
    warmed_models,         \* _prewarm_state.warmed_models
    pw_workers,            \* the worker threads created and not yet finished
    warmed_for,            \* history: hash of each model's last successful warm-up
    pw_result,             \* history: what the latest trigger did
    pw_triggers,           \* number of trigger calls so far
    \* ---- GGUFAnthropicAdapter._convert_system_to_messages ----
    cv_pc,                 \* "called" | "returned" | "idle"
    cv_system,             \* the system argument
    cv_messages,           \* the messages argument
    openai_messages        \* the list returned

gvars == <<pc, backend_text, backend_pos, chunk_count, events, accumulated_text,
           current_block_index, text_block_started, in_tool_call_xml,
           finish_reason, prompt_tokens, completion_tokens,
           streaming_tool_calls, tool_calls, context_warned, interrupted,
           start_failed, content_sent, reasoning_sent,
           fragments_received>>

bvars == <<p_pc, c_pc, gen_total, gen_raises, produced, event_queue, done_event,
           error_holder, yielded, backend_reads, reads_at_close>>

mvars == <<m_pc, m_text, m_pos, m_count, m_final_seen, lookback_buffer,
           text_parts, all_chunks, tool_marker_detected, m_accumulated_text, m_out>>

parsevars == <<parse_pc, parse_text, parse_first, parse_second>>

ovars == <<o_pc, o_text, o_pos, o_final_seen, o_accumulated_text,
           buffered_chunks, o_out>>

ssevars == <<sse_pc, sse_lines, sse_pos, sse_out>>

wvars == <<w_pc, w_wrapper, w_model, w_tools, w_source, w_produced, w_out>>

kvvars == <<kv_pc, slots, persisted_keys, kv_lock, kv_caller, delete_key,
            clear_pending, recency, kv_evicted>>

avars == <<a_pc, a_model_id, _MODEL_ALIASES, _ROUTING_CONFIG, a_result>>

srvvars == <<srv_pc, process, current_model, port, alive, spawned, last_call>>

dlvars == <<dl_pc, downloads, dl_entered, dl_created, dl_running, dl_calls>>

pwvars == <<pw_pc, is_warming, last_system_prompt_hash, last_model_used,
            warmed_models, pw_workers, warmed_for, pw_result, pw_triggers>>

cvvars == <<cv_pc, cv_system, cv_messages, openai_messages>>

vars == <<gvars, bvars, mvars, parsevars, ovars, ssevars, wvars, kvvars,
          avars, srvvars, dlvars, pwvars, cvvars>>

\* what an action of one component leaves alone
notGGUF == <<bvars, mvars, parsevars, ovars, ssevars, wvars, kvvars, avars,
             srvvars, dlvars, pwvars, cvvars>>
notBridge == <<gvars, mvars, parsevars, ovars, ssevars, wvars, kvvars, avars,
               srvvars, dlvars, pwvars, cvvars>>
notMistral == <<gvars, bvars, parsevars, ovars, ssevars, wvars, kvvars,
                avars, srvvars, dlvars, pwvars, cvvars>>
notParser == <<gvars, bvars, mvars, ovars, ssevars, wvars, kvvars, avars,
               srvvars, dlvars, pwvars, cvvars>>
notGptOss == <<gvars, bvars, mvars, parsevars, ssevars, wvars, kvvars, avars,
               srvvars, dlvars, pwvars, cvvars>>
notSse == <<gvars, bvars, mvars, parsevars, ovars, wvars, kvvars, avars,
            srvvars, dlvars, pwvars, cvvars>>
notWrapper == <<gvars, bvars, mvars, parsevars, ovars, ssevars, kvvars,
                avars, srvvars, dlvars, pwvars, cvvars>>
notKv == <<gvars, bvars, mvars, parsevars, ovars, ssevars, wvars, avars,
           srvvars, dlvars, pwvars, cvvars>>
notAlias == <<gvars, bvars, mvars, parsevars, ovars, ssevars, wvars, kvvars,
              srvvars, dlvars, pwvars, cvvars>>
notServer == <<gvars, bvars, mvars, parsevars, ovars, ssevars, wvars, kvvars,
               avars, dlvars, pwvars, cvvars>>
notDownload == <<gvars, bvars, mvars, parsevars, ovars, ssevars, wvars,
                 kvvars, avars, srvvars, pwvars, cvvars>>
notPrewarm == <<gvars, bvars, mvars, parsevars, ovars, ssevars, wvars,
                kvvars, avars, srvvars, dlvars, cvvars>>
notConvert == <<gvars, bvars, mvars, parsevars, ovars, ssevars, wvars,
                kvvars, avars, srvvars, dlvars, pwvars>>

-----------------------------------------------------------------------------
(* Bounds *)

MaxChunks == 3
MaxEvents == 3
MaxMistralChunks == 4
MaxArgLen == 3
MaxSegments == 2
MaxOssChunks == 3
MaxLines == 5
MaxPassChunks == 2
MaxAliases == 2
MaxSpawns == 4
MaxDownloadCalls == 4
MaxTriggers == 4
MaxConvMessages == 1
MaxBlocks == 3

-----------------------------------------------------------------------------
(* Text helpers *)

\* Python's `m in s` on strings
Contains(s, m) ==
    \E i \in 1..(Len(s) - Len(m) + 1) : SubSeq(s, i, i + Len(m) - 1) = m

\* first index at which m occurs in s (0 when it does not)
FindFirst(s, m) ==
    IF Contains(s, m)
    THEN CHOOSE i \in 1..(Len(s) - Len(m) + 1) :
            /\ SubSeq(s, i, i + Len(m) - 1) = m
            /\ \A j \in 1..(i - 1) : SubSeq(s, j, j + Len(m) - 1) # m
    ELSE 0

IsPrefix(p, s) == Len(p) <= Len(s) /\ SubSeq(s, 1, Len(p)) = p

FunctionMarker == <<"<", "f", "u", "n", "c", "t", "i", "o", "n", "=">>
ToolCallMarker == <<"<", "t", "o", "o", "l", "_", "c", "a", "l", "l", ">">>

\* the test of gguf_adapter.py line 672
HasToolMarker(text) ==
    Contains(text, FunctionMarker) \/ Contains(text, ToolCallMarker)

-----------------------------------------------------------------------------
(* Output events of the messages protocol (MessageStreamEvent) *)

NoUsage == <<0, 0>>

Event(type, index, kind, text, stop_reason, usage) ==
    [type |-> type, index |-> index, kind |-> kind, text |-> text,
     stop_reason |-> stop_reason, usage |-> usage]

MessageStart == Event("message_start", -1, "", <<>>, "", NoUsage)
TextBlockStart(i) == Event("content_block_start", i, "text", <<>>, "", NoUsage)
TextDelta(i, text) == Event("content_block_delta", i, "text_delta", text, "", NoUsage)
BlockStop(i) == Event("content_block_stop", i, "", <<>>, "", NoUsage)
ToolUseStart(i, tc) ==
    Event("content_block_start", i, "tool_use", <<tc.id, tc.name>>, "", NoUsage)
InputJsonDelta(i, tc) ==
    Event("content_block_delta", i, "input_json_delta", <<tc.arguments>>, "", NoUsage)
MessageDelta(stop_reason, p, c) ==
    Event("message_delta", -1, "", <<>>, stop_reason, <<p, c>>)
MessageStop == Event("message_stop", -1, "", <<>>, "", NoUsage)

\* fixed texts the adapter itself writes (each one token: they hold no marker)
AdvisoryText == <<"[context warning]\n\n">>
StartErrorText == <<"[GGUF Error: e]">>
InterruptNotice == <<"\n[Stream interrupted: e]">>

-----------------------------------------------------------------------------
(* Backend chunks: what GGUFBackend.generate_stream yields *)

Chunk(usage, choices, content, reasoning, finish, tcs) ==
    [usage |-> usage, choices |-> choices, content |-> content,
     reasoning |-> reasoning, finish |-> finish, tool_calls |-> tcs]

\* a text delta: in `content`, in `reasoning_content`, or in `content` with
\* a reasoning_content beside it (which the adapter must then ignore)
TextChunk(piece, field) ==
    Chunk(<<>>, TRUE,
          IF field = "reasoning" THEN <<>> ELSE piece,
          IF field = "reasoning" THEN piece
          ELSE IF field = "both" THEN <<"r">> ELSE <<>>,
          "", <<>>)

FinishChunk(reason) == Chunk(<<>>, TRUE, <<>>, <<>>, reason, <<>>)
NativeChunk(frag) == Chunk(<<>>, TRUE, <<>>, <<>>, "", <<frag>>)
\* the final usage chunk of llama-server: empty choices, the two counters
UsageChunk == Chunk(<<2, 3>>, FALSE, <<>>, <<>>, "", <<>>)

\* native tool-call fragments (arguments in JSON tokens; k:1 stands for "k":1)
Fragment(index, id, name, arguments) ==
    [index |-> index, id |-> id, name |-> name, arguments |-> arguments]

NativeFragments ==
    { Fragment(0, "call_a", "f", <<"{", "k:1", "}">>),
      Fragment(0, "call_a", "f", <<"{", "k:1">>),
      Fragment(0, "", "", <<"}">>),
      Fragment(0, "call_c", "h", <<>>),
      Fragment(1, "", "g", <<>>),
      Fragment(1, "call_b", "g", <<"{", "}">>) }

Texts ==
    { <<"h", "i">>,
      <<"a", "<", "t", "o", "o", "l">>,
      <<"a", "<", "t", "o", "o", "l", "_", "c", "a", "l", "l", ">", "b">>,
      <<"<", "f", "u", "n", "c", "t", "i", "o", "n", "=", "f">>,
      <<>> }

FinishReasons == {"stop", "length", "tool_calls"}

-----------------------------------------------------------------------------
(* Helpers of _generate_stream_async *)

GeneratedId == "toolu_gen"

\* a slip that would keep the first name and id of an index
AssembleFragmentKeepFirst(stc, tc) ==
    LET idx == tc.index
    IN  IF idx \notin DOMAIN stc
        THEN stc @@ (idx :> [id |-> IF tc.id # "" THEN tc.id ELSE GeneratedId,
                             name |-> tc.name, arguments |-> tc.arguments])
        ELSE [stc EXCEPT ![idx].arguments = @ \o tc.arguments]

\* lines 644-658: one fragment into streaming_tool_calls
AssembleFragment(stc, tc) ==
    LET idx == tc.index
        base == IF idx \in DOMAIN stc THEN stc
                ELSE stc @@ (idx :> [id |-> IF tc.id # "" THEN tc.id ELSE GeneratedId,
                                      name |-> "", arguments |-> <<>>])
        withId == IF tc.id # "" THEN [base EXCEPT ![idx].id = tc.id] ELSE base
        withName == IF tc.name # "" THEN [withId EXCEPT ![idx].name = tc.name]
                    ELSE withId
    IN  IF tc.arguments # <<>>
        THEN [withName EXCEPT ![idx].arguments = @ \o tc.arguments]
        ELSE withName

RECURSIVE AssembleAll(_, _)
AssembleAll(stc, tcs) ==
    IF tcs = <<>> THEN stc
    ELSE AssembleAll(AssembleFragment(stc, Head(tcs)), Tail(tcs))

\* a slip that would stream `content` alone
EffectiveDeltaContentOnly(content_delta, reasoning_delta) == content_delta

\* line 662: effective_delta = content_delta or reasoning_delta
EffectiveDelta(content_delta, reasoning_delta) ==
    IF content_delta # <<>> THEN content_delta ELSE reasoning_delta

\* a slip that would never enter the withholding mode
DetectToolCallXmlNever(in_xml, accumulated) == FALSE

\* lines 672-673
DetectToolCallXml(in_xml, accumulated) ==
    IF HasToolMarker(accumulated) THEN TRUE ELSE in_xml

\* json.loads on the argument tokens
JsonLoads(text) ==
    CASE text = <<"{", "}">> -> [ok |-> TRUE, value |-> "{}"]
      [] text = <<"{", "k:1", "}">> -> [ok |-> TRUE, value |-> "{k:1}"]
      [] OTHER -> [ok |-> FALSE, value |-> ""]

ToolCall(id, name, arguments) == [id |-> id, name |-> name, arguments |-> arguments]

\* lines 731-743: structured tool calls, in ascending index order
RECURSIVE NativeToolCalls(_, _)
NativeToolCalls(stc, idxs) ==
    IF idxs = {} THEN <<>>
    ELSE LET idx == CHOOSE i \in idxs : \A j \in idxs : i <= j
             tc == stc[idx]
             parsed == JsonLoads(tc.arguments)
             args == IF parsed.ok THEN parsed.value ELSE "{}"
             rest == NativeToolCalls(stc, idxs \ {idx})
         IN  IF tc.name # "" /\ tc.arguments # <<>>
             THEN <<ToolCall(tc.id, tc.name, args)>> \o rest
             ELSE rest

\* what Qwen3MoeToolParser.parse_tools may do on a text that holds a marker:
\* the adapter has no parser, the parser raises, or it returns a list of
\* calls (a call with arguments "{}" has empty arguments)
ParserOutcomes ==
    { [kind |-> "no_parser", calls |-> <<>>],
      [kind |-> "raise", calls |-> <<>>],
      [kind |-> "calls", calls |-> <<>>],
      [kind |-> "calls", calls |-> <<ToolCall("x1", "f", "{k:1}")>>],
      [kind |-> "calls", calls |-> <<ToolCall("x1", "f", "{k:1}"),
                                     ToolCall("x2", "g", "{}")>>] }

\* lines 255-264: drop the calls with empty arguments
RECURSIVE ValidCalls(_)
ValidCalls(calls) ==
    IF calls = <<>> THEN <<>>
    ELSE IF Head(calls).arguments # "{}"
         THEN <<Head(calls)>> \o ValidCalls(Tail(calls))
         ELSE ValidCalls(Tail(calls))

\* _parse_tool_calls, lines 234-268
ParseToolCalls(text, outcome) ==
    IF outcome.kind = "no_parser" THEN <<>>
    ELSE IF ~HasToolMarker(text) THEN <<>>
    ELSE IF outcome.kind = "raise" THEN <<>>
    ELSE ValidCalls(outcome.calls)

\* a slip that would test the truncation before the tool calls
ResolveStopReasonLengthFirst(has_tool_calls, finish) ==
    IF finish = "length" THEN "max_tokens"
    ELSE IF has_tool_calls THEN "tool_use"
    ELSE "end_turn"

\* lines 803-810
ResolveStopReason(has_tool_calls, finish) ==
    IF has_tool_calls THEN "tool_use"
    ELSE IF finish = "length" THEN "max_tokens"
    ELSE "end_turn"

\* lines 773-801: one tool_use block per call
RECURSIVE ToolUseBlocks(_, _)
ToolUseBlocks(calls, index) ==
    IF calls = <<>> THEN <<>>
    ELSE <<ToolUseStart(index, Head(calls)),
           InputJsonDelta(index, Head(calls)),
           BlockStop(index)>> \o ToolUseBlocks(Tail(calls), index + 1)

\* a slip that would leave the text block open
CloseTextBlockNever(started, index) == <<>>

\* lines 719-725: end the text block if started
CloseTextBlock(started, index) ==
    IF started THEN <<BlockStop(index)>> ELSE <<>>

\* a slip that would omit the empty text block
EmptyTextBlockNever(calls, started, index) == <<>>

\* lines 758-769: the empty text block before tool calls
EmptyTextBlock(calls, started, index) ==
    IF calls # <<>> /\ ~started
    THEN <<TextBlockStart(index), BlockStop(index)>>
    ELSE <<>>

\* line 592 etc.: the block index of the start-failure notice
StartErrorIndex(index) == 0

-----------------------------------------------------------------------------
(* GGUFAnthropicAdapter._generate_stream_async *)

EmptyMap == [i \in {} |-> 0]

GGUFInit ==
    /\ pc = "start"
    /\ backend_text \in Texts
    /\ backend_pos = 0
    /\ chunk_count = 0
    /\ events = <<>>
    /\ accumulated_text = <<>>
    /\ current_block_index = 0
    /\ text_block_started = FALSE
    /\ in_tool_call_xml = FALSE
    /\ finish_reason = "stop"
    /\ prompt_tokens = 0
    /\ completion_tokens = 0
    /\ streaming_tool_calls = EmptyMap
    /\ tool_calls = <<>>
    /\ context_warned = FALSE
    /\ interrupted = FALSE
    /\ start_failed = FALSE
    /\ content_sent = <<>>
    /\ reasoning_sent = <<>>
    /\ fragments_received = <<>>

\* lines 560-576: the context advisory block
AdvisoryBlock(index) ==
    <<TextBlockStart(index), TextDelta(index, AdvisoryText), BlockStop(index)>>

\* lines 587-610: backend.generate_stream raised
StartErrorEvents(index) ==
    <<TextBlockStart(StartErrorIndex(index)),
      TextDelta(StartErrorIndex(index), StartErrorText),
      BlockStop(StartErrorIndex(index)),
      MessageDelta("end_turn", 0, 0),
      MessageStop>>

\* a slip that would write the advisory block ahead of the framing
OpeningEventsAdvisoryFirst(advisory, error) ==
    advisory \o <<MessageStart>> \o error

\* lines 535-610: the order of what is yielded before the chunk loop
OpeningEvents(advisory, error) == <<MessageStart>> \o advisory \o error

\* lines 535-610: message_start, the optional advisory, opening the stream
StartStream ==
    /\ pc = "start"
    /\ \E warn \in BOOLEAN, fails \in BOOLEAN :
         LET advisory == IF warn THEN AdvisoryBlock(current_block_index) ELSE <<>>
             index == IF warn THEN current_block_index + 1 ELSE current_block_index
         IN  /\ context_warned' = warn
             /\ start_failed' = fails
             /\ current_block_index' = index
             /\ text_block_started' = FALSE
             /\ events' = OpeningEvents(advisory,
                              IF fails THEN StartErrorEvents(index) ELSE <<>>)
             /\ pc' = IF fails THEN "done" ELSE "streaming"
    /\ UNCHANGED <<backend_text, backend_pos, chunk_count, accumulated_text,
                   in_tool_call_xml, finish_reason, prompt_tokens,
                   completion_tokens, streaming_tool_calls, tool_calls,
                   interrupted, content_sent, reasoning_sent,
                   fragments_received>>
    /\ UNCHANGED notGGUF

TextFields == {"content", "reasoning", "both"}

\* the chunks the backend may yield next
NextChunks ==
    { TextChunk(SubSeq(backend_text, backend_pos + 1, backend_pos + n), f) :
        n \in 1..(Len(backend_text) - backend_pos), f \in TextFields }
    \cup { FinishChunk(r) : r \in FinishReasons }
    \cup { NativeChunk(frag) : frag \in NativeFragments }
    \cup { UsageChunk }

\* the characters of the backend's text a chunk carries
ChunkTextLen(chunk) ==
    IF chunk.content # <<>> THEN Len(chunk.content) ELSE Len(chunk.reasoning)

\* lines 614-693: the body of `async for chunk in stream`
ConsumeChunk ==
    /\ pc = "streaming"
    /\ chunk_count < MaxChunks
    /\ \E chunk \in NextChunks :
         LET effective_delta == EffectiveDelta(chunk.content, chunk.reasoning)
             accumulated == accumulated_text \o effective_delta
             in_xml == DetectToolCallXml(in_tool_call_xml, accumulated)
         IN  /\ chunk_count' = chunk_count + 1
             /\ backend_pos' = backend_pos + ChunkTextLen(chunk)
             /\ content_sent' = content_sent \o chunk.content
             /\ reasoning_sent' = reasoning_sent \o chunk.reasoning
             /\ fragments_received' =
                    IF chunk.choices THEN fragments_received \o chunk.tool_calls
                    ELSE fragments_received
             /\ IF chunk.usage # <<>>
                THEN /\ prompt_tokens' = chunk.usage[1]
                     /\ completion_tokens' = chunk.usage[2]
                ELSE UNCHANGED <<prompt_tokens, completion_tokens>>
             /\ IF ~chunk.choices
                THEN UNCHANGED <<finish_reason, streaming_tool_calls,
                                 accumulated_text, in_tool_call_xml,
                                 text_block_started, events>>
                ELSE /\ finish_reason' = IF chunk.finish # "" THEN chunk.finish
                                         ELSE finish_reason
                     /\ streaming_tool_calls' =
                            AssembleAll(streaming_tool_calls, chunk.tool_calls)
                     /\ IF effective_delta = <<>>
                        THEN UNCHANGED <<accumulated_text, in_tool_call_xml,
                                         text_block_started, events>>
                        ELSE /\ accumulated_text' = accumulated
                             /\ in_tool_call_xml' = in_xml
                             /\ IF in_xml
                                THEN UNCHANGED <<text_block_started, events>>
                                ELSE /\ text_block_started' = TRUE
                                     /\ events' = events
                                          \o (IF text_block_started THEN <<>>
                                              ELSE <<TextBlockStart(current_block_index)>>)
                                          \o <<TextDelta(current_block_index,
                                                         effective_delta)>>
    /\ UNCHANGED <<pc, backend_text, current_block_index, tool_calls,
                   context_warned, interrupted, start_failed>>
    /\ UNCHANGED notGGUF

\* a slip that would prefer the calls parsed from the text
ResolveToolCallsTextFirst(stc, text, outcome) ==
    IF text # <<>> /\ ParseToolCalls(text, outcome) # <<>>
    THEN ParseToolCalls(text, outcome)
    ELSE NativeToolCalls(stc, DOMAIN stc)

\* lines 727-751: structured calls first, else the calls parsed from the text
ResolveToolCalls(stc, text, outcome) ==
    IF DOMAIN stc # {} THEN NativeToolCalls(stc, DOMAIN stc)
    ELSE IF text # <<>> THEN ParseToolCalls(text, outcome)
    ELSE <<>>

\* lines 719-823: what follows the loop
AfterLoop(started, evs, outcome) ==
    LET closing == CloseTextBlock(started, current_block_index)
        index1 == IF started THEN current_block_index + 1 ELSE current_block_index
        calls == ResolveToolCalls(streaming_tool_calls, accumulated_text, outcome)
        empty == EmptyTextBlock(calls, started, index1)
        index2 == IF empty # <<>> THEN index1 + 1 ELSE index1
        blocks == ToolUseBlocks(calls, index2)
        stop_reason == ResolveStopReason(Len(calls) > 0, finish_reason)
    IN  /\ tool_calls' = calls
        /\ current_block_index' = index2 + Len(calls)
        /\ text_block_started' = started
        /\ events' = evs \o closing \o empty \o blocks
                     \o <<MessageDelta(stop_reason, prompt_tokens, completion_tokens),
                          MessageStop>>
        /\ pc' = "done"

\* the delta sequence ends (lines 614, 710-823)
StreamExhausted ==
    /\ pc = "streaming"
    /\ backend_pos = Len(backend_text)
    /\ \E outcome \in ParserOutcomes :
         AfterLoop(text_block_started, events, outcome)
    /\ UNCHANGED <<backend_text, backend_pos, chunk_count, accumulated_text,
                   in_tool_call_xml, finish_reason, prompt_tokens,
                   completion_tokens, streaming_tool_calls, context_warned,
                   interrupted, start_failed, content_sent, reasoning_sent,
                   fragments_received>>
    /\ UNCHANGED notGGUF

\* lines 694-708: the notice of an interrupted stream
InterruptEvents(started, index) ==
    (IF started THEN <<>> ELSE <<TextBlockStart(index)>>)
    \o <<TextDelta(index, InterruptNotice)>>

\* the delta sequence raises (lines 694-708, then 710-823)
StreamInterrupted ==
    /\ pc = "streaming"
    /\ interrupted' = TRUE
    /\ \E outcome \in ParserOutcomes :
         AfterLoop(TRUE,
                   events \o InterruptEvents(text_block_started, current_block_index),
                   outcome)
    /\ UNCHANGED <<backend_text, backend_pos, chunk_count, accumulated_text,
                   in_tool_call_xml, finish_reason, prompt_tokens,
                   completion_tokens, streaming_tool_calls, context_warned,
                   start_failed, content_sent, reasoning_sent,
                   fragments_received>>
    /\ UNCHANGED notGGUF

\* the component at rest, in the specifications of the other components
GGUFIdle ==
    /\ pc = "idle"
    /\ backend_text = <<>>
    /\ backend_pos = 0
    /\ chunk_count = 0
    /\ events = <<>>
    /\ accumulated_text = <<>>
    /\ current_block_index = 0
    /\ text_block_started = FALSE
    /\ in_tool_call_xml = FALSE
    /\ finish_reason = "stop"
    /\ prompt_tokens = 0
    /\ completion_tokens = 0
    /\ streaming_tool_calls = EmptyMap
    /\ tool_calls = <<>>
    /\ context_warned = FALSE
    /\ interrupted = FALSE
    /\ start_failed = FALSE
    /\ content_sent = <<>>
    /\ reasoning_sent = <<>>
    /\ fragments_received = <<>>

-----------------------------------------------------------------------------
(* GGUFAnthropicAdapter._generate_async: the non-streaming response to the  *)
(* same backend output (lines 301-415)                                      *)

ToolCallClose == <<"<", "/", "t", "o", "o", "l", "_", "c", "a", "l", "l", ">">>

\* re.sub(open + ".*?" + close, "", text): every block from an opening to
\* the nearest closing is removed
RECURSIVE RemoveBlocks(_, _, _)
RemoveBlocks(text, open, close) ==
    LET i == FindFirst(text, open)
        rest == SubSeq(text, i + Len(open), Len(text))
        j == FindFirst(rest, close)
    IN  IF i = 0 \/ j = 0 THEN text
        ELSE SubSeq(text, 1, i - 1)
             \o RemoveBlocks(SubSeq(rest, j + Len(close), Len(rest)), open, close)

\* _clean_tool_xml, lines 270-283
CleanToolXml(text) ==
    RemoveBlocks(RemoveBlocks(text, ToolCallMarker, ToolCallClose),
                 FunctionMarker, ToolCallClose)

\* lines 352-367: every structured call of the message becomes a tool_use
\* block; arguments that fail to parse become {}
RECURSIVE OpenAIToolCalls(_, _)
OpenAIToolCalls(stc, idxs) ==
    IF idxs = {} THEN <<>>
    ELSE LET idx == CHOOSE i \in idxs : \A j \in idxs : i <= j
             tc == stc[idx]
             parsed == JsonLoads(tc.arguments)
         IN  <<ToolCall(tc.id, tc.name, IF parsed.ok THEN parsed.value ELSE "{}")>>
             \o OpenAIToolCalls(stc, idxs \ {idx})

\* _generate_async from the extraction of the response on (lines 342-415):
\* the display text, the tool calls and the stop reason of the response
GenerateAsync(content_text, reasoning_text, openai_tool_calls, finish, outcome) ==
    LET parsed == ParseToolCalls(reasoning_text \o content_text, outcome)
        calls == IF DOMAIN openai_tool_calls # {}
                 THEN OpenAIToolCalls(openai_tool_calls, DOMAIN openai_tool_calls)
                 ELSE parsed
        text == IF DOMAIN openai_tool_calls = {} /\ parsed # <<>>
                THEN CleanToolXml(content_text) ELSE content_text
    IN  [text |-> text, tool_calls |-> calls,
         stop_reason |-> ResolveStopReason(calls # <<>>, finish)]

-----------------------------------------------------------------------------
(* GGUFAnthropicAdapter.generate_stream: the producer thread run_async puts *)
(* the emitter's events on event_queue; the generator takes them off.       *)
(* Events are numbered 1, 2, ... in the order the emitter yields them.      *)

ConsumerStates ==
    {"check_done", "check_empty", "get", "suspended", "after_loop",
     "returned", "raised", "closed", "idle"}

BridgeInit ==
    /\ p_pc = "run"
    /\ c_pc = "check_done"
    /\ gen_total \in 0..MaxEvents
    /\ gen_raises \in BOOLEAN
    /\ produced = 0
    /\ event_queue = <<>>
    /\ done_event = FALSE
    /\ error_holder = ""
    /\ yielded = <<>>
    /\ backend_reads = 0
    /\ reads_at_close = 0

BridgeIdle ==
    /\ p_pc = "idle"
    /\ c_pc = "idle"
    /\ gen_total = 0
    /\ gen_raises = FALSE
    /\ produced = 0
    /\ event_queue = <<>>
    /\ done_event = FALSE
    /\ error_holder = ""
    /\ yielded = <<>>
    /\ backend_reads = 0
    /\ reads_at_close = 0

\* lines 445-446: the emitter yields its next event (reading a backend
\* delta for it) and the thread puts it on the unbounded queue
ProducerPut ==
    /\ p_pc = "run"
    /\ produced < gen_total
    /\ produced' = produced + 1
    /\ backend_reads' = backend_reads + 1
    /\ event_queue' = Append(event_queue, produced + 1)
    /\ UNCHANGED <<p_pc, c_pc, gen_total, gen_raises, done_event, error_holder,
                   yielded, reads_at_close>>
    /\ UNCHANGED notBridge

\* lines 447-449: the emitter is exhausted
ProducerEnd ==
    /\ p_pc = "run"
    /\ produced = gen_total
    /\ ~gen_raises
    /\ p_pc' = "finally"
    /\ UNCHANGED <<c_pc, gen_total, gen_raises, produced, event_queue, done_event,
                   error_holder, yielded, backend_reads, reads_at_close>>
    /\ UNCHANGED notBridge

\* lines 450-451: the emitter raised
ProducerExcept ==
    /\ p_pc = "run"
    /\ produced = gen_total
    /\ gen_raises
    /\ error_holder' = "error"
    /\ p_pc' = "finally"
    /\ UNCHANGED <<c_pc, gen_total, gen_raises, produced, event_queue, done_event,
                   yielded, backend_reads, reads_at_close>>
    /\ UNCHANGED notBridge

\* lines 452-453
ProducerSetDone ==
    /\ p_pc = "finally"
    /\ done_event' = TRUE
    /\ p_pc' = "exit"
    /\ UNCHANGED <<c_pc, gen_total, gen_raises, produced, event_queue,
                   error_holder, yielded, backend_reads, reads_at_close>>
    /\ UNCHANGED notBridge

\* a slip that would end the loop on done_event alone
QueueIgnored(queue) == FALSE

\* line 460, second operand: `not event_queue.empty()` keeps the loop going
QueueKeepsLoop(queue) == queue # <<>>

\* line 460, first operand: not done_event.is_set()
ConsumerCheckDone ==
    /\ c_pc = "check_done"
    /\ c_pc' = IF ~done_event THEN "get" ELSE "check_empty"
    /\ UNCHANGED <<p_pc, gen_total, gen_raises, produced, event_queue, done_event,
                   error_holder, yielded, backend_reads, reads_at_close>>
    /\ UNCHANGED notBridge

\* line 460, second operand
ConsumerCheckEmpty ==
    /\ c_pc = "check_empty"
    /\ c_pc' = IF QueueKeepsLoop(event_queue) THEN "get" ELSE "after_loop"
    /\ UNCHANGED <<p_pc, gen_total, gen_raises, produced, event_queue, done_event,
                   error_holder, yielded, backend_reads, reads_at_close>>
    /\ UNCHANGED notBridge

\* lines 462-463: get returns an event, which is yielded
ConsumerGet ==
    /\ c_pc = "get"
    /\ event_queue # <<>>
    /\ yielded' = Append(yielded, Head(event_queue))
    /\ event_queue' = Tail(event_queue)
    /\ c_pc' = "suspended"
    /\ UNCHANGED <<p_pc, gen_total, gen_raises, produced, done_event, error_holder,
                   backend_reads, reads_at_close>>
    /\ UNCHANGED notBridge

\* lines 464-465: get times out on the empty queue
ConsumerTimeout ==
    /\ c_pc = "get"
    /\ event_queue = <<>>
    /\ c_pc' = "check_done"
    /\ UNCHANGED <<p_pc, gen_total, gen_raises, produced, event_queue, done_event,
                   error_holder, yielded, backend_reads, reads_at_close>>
    /\ UNCHANGED notBridge

\* the client asks for the next event
ConsumerResume ==
    /\ c_pc = "suspended"
    /\ c_pc' = "check_done"
    /\ UNCHANGED <<p_pc, gen_total, gen_raises, produced, event_queue, done_event,
                   error_holder, yielded, backend_reads, reads_at_close>>
    /\ UNCHANGED notBridge

\* the client closes the generator (GeneratorExit at the yield of line 463)
ClientClose ==
    /\ c_pc = "suspended"
    /\ c_pc' = "closed"
    /\ reads_at_close' = backend_reads
    /\ UNCHANGED <<p_pc, gen_total, gen_raises, produced, event_queue, done_event,
                   error_holder, yielded, backend_reads>>
    /\ UNCHANGED notBridge

\* lines 467-469
ConsumerFinish ==
    /\ c_pc = "after_loop"
    /\ c_pc' = IF error_holder # "" THEN "raised" ELSE "returned"
    /\ UNCHANGED <<p_pc, gen_total, gen_raises, produced, event_queue, done_event,
                   error_holder, yielded, backend_reads, reads_at_close>>
    /\ UNCHANGED notBridge

ProducerStep == ProducerPut \/ ProducerEnd \/ ProducerExcept \/ ProducerSetDone
ConsumerStep ==
    \/ ConsumerCheckDone \/ ConsumerCheckEmpty \/ ConsumerGet
    \/ ConsumerTimeout \/ ConsumerResume \/ ConsumerFinish

-----------------------------------------------------------------------------
(* mistral_tools_parser.py, on texts whose tokens are the characters of     *)
(* the marker, the token "[ARGS]", word tokens, and the JSON tokens         *)
(* "{", "k:1" (standing for "k": 1) and "}"                                 *)

TOOL_MARKER_START == <<"[", "T", "O", "O", "L", "_", "C", "A", "L", "L", "S", "]">>
TOOL_MARKER_PARTIAL == <<"[", "T", "O", "O", "L", "_", "C", "A", "L", "L", "S">>
ARGS_MARKER == <<"[ARGS]">>

\* tokens matched by \w
WordTokens == {"f", "g", "x", "y"}

\* has_mistral_tool_calls, lines 177-189
HasMistralToolCalls(text) ==
    /\ text # <<>>
    /\ Contains(text, TOOL_MARKER_START)
    /\ Contains(text, ARGS_MARKER)

\* first position >= from holding token t (0 when there is none)
IndexFrom(text, t, from) ==
    IF \E i \in from..Len(text) : text[i] = t
    THEN CHOOSE i \in from..Len(text) :
            text[i] = t /\ \A j \in from..(i - 1) : text[j] # t
    ELSE 0

\* last position holding token t (0 when there is none)
LastIndex(text, t) ==
    IF \E i \in 1..Len(text) : text[i] = t
    THEN CHOOSE i \in 1..Len(text) :
            text[i] = t /\ \A j \in (i + 1)..Len(text) : text[j] # t
    ELSE 0

\* first position >= from at which the marker occurs (0 when there is none)
MarkerFrom(text, from) ==
    LET n == Len(TOOL_MARKER_START)
        at(i) == i + n - 1 <= Len(text) /\ SubSeq(text, i, i + n - 1) = TOOL_MARKER_START
    IN  IF \E i \in from..Len(text) : at(i)
        THEN CHOOSE i \in from..Len(text) : at(i) /\ \A j \in from..(i - 1) : ~at(j)
        ELSE 0

\* end of the run of word tokens that starts at position i (i - 1 when none)
RECURSIVE WordRunEnd(_, _)
WordRunEnd(text, i) ==
    IF i <= Len(text) /\ text[i] \in WordTokens THEN WordRunEnd(text, i + 1)
    ELSE i - 1

\* the head `\[TOOL_CALLS\](\w+)\[ARGS\]` at position i: where the arguments
\* begin (0 when the head does not match)
HeadAt(text, i) ==
    LET n == Len(TOOL_MARKER_START)
        nameEnd == WordRunEnd(text, i + n)
    IN  IF /\ i + n - 1 <= Len(text)
           /\ SubSeq(text, i, i + n - 1) = TOOL_MARKER_START
           /\ nameEnd >= i + n
           /\ nameEnd + 1 <= Len(text)
           /\ text[nameEnd + 1] = "[ARGS]"
        THEN nameEnd + 2
        ELSE 0

NameAt(text, i) ==
    SubSeq(text, i + Len(TOOL_MARKER_START), HeadAt(text, i) - 2)

\* MISTRAL_TOOL_PATTERN.findall (line 61): the arguments are "{" up to the
\* first "}"
RECURSIVE FindStrict(_, _)
FindStrict(text, i) ==
    IF i > Len(text) THEN <<>>
    ELSE LET a == HeadAt(text, i)
             close == IF a # 0 /\ a <= Len(text) /\ text[a] = "{"
                      THEN IndexFrom(text, "}", a + 1) ELSE 0
         IN  IF close # 0
             THEN <<[name |-> NameAt(text, i), args |-> SubSeq(text, a, close)]>>
                  \o FindStrict(text, close + 1)
             ELSE FindStrict(text, i + 1)

\* MISTRAL_TOOL_PATTERN_MULTILINE.findall (line 65): the arguments run to
\* the next marker or to the end of the text
RECURSIVE FindMultiline(_, _)
FindMultiline(text, i) ==
    IF i > Len(text) THEN <<>>
    ELSE LET a == HeadAt(text, i)
             nextMarker == IF a # 0 THEN MarkerFrom(text, a) ELSE 0
             stop == IF nextMarker # 0 THEN nextMarker - 1 ELSE Len(text)
         IN  IF a # 0
             THEN <<[name |-> NameAt(text, i), args |-> SubSeq(text, a, stop)]>>
                  \o FindMultiline(text, stop + 1)
             ELSE FindMultiline(text, i + 1)

\* json.loads of _parse_json_args, line 125
MistralJsonLoads(text) == JsonLoads(text)

\* _parse_malformed_json, lines 131-174: the key/value pairs found ("" for
\* None, when there is none)
ParseMalformedJson(text) ==
    IF \E i \in 1..Len(text) : text[i] = "k:1" THEN "{k:1}" ELSE ""

\* _parse_json_args, lines 92-128 ("" for None)
ParseJsonArgs(args_str) ==
    IF args_str = <<>> THEN "{}"
    ELSE LET open == IndexFrom(args_str, "{", 1)
             s1 == IF args_str[1] = "{" THEN args_str
                   ELSE SubSeq(args_str, open, Len(args_str))
             close == LastIndex(s1, "}")
             s2 == IF s1[Len(s1)] = "}" THEN s1
                   ELSE IF close # 0 THEN SubSeq(s1, 1, close)
                   ELSE Append(s1, "}")
         IN  IF args_str[1] # "{" /\ open = 0 THEN "{}"
             ELSE IF MistralJsonLoads(s2).ok THEN MistralJsonLoads(s2).value
             ELSE ParseMalformedJson(s2)

\* lines 67-87: deduplicate, parse the arguments, drop the unparsable
RECURSIVE BuildCalls(_, _, _)
BuildCalls(matches, seen, k) ==
    IF matches = <<>> THEN <<>>
    ELSE LET m == Head(matches)
             arguments == ParseJsonArgs(m.args)
         IN  IF m \in seen THEN BuildCalls(Tail(matches), seen, k)
             ELSE IF arguments = ""
                  THEN BuildCalls(Tail(matches), seen \cup {m}, k)
                  ELSE <<[id |-> k, name |-> m.name, arguments |-> arguments]>>
                       \o BuildCalls(Tail(matches), seen \cup {m}, k + 1)

\* parse_mistral_tool_calls, lines 40-89 (ids number the calls of one parse)
ParseMistralToolCalls(text) ==
    IF text = <<>> \/ ~Contains(text, TOOL_MARKER_START) THEN <<>>
    ELSE LET strict == FindStrict(text, 1)
             matches == IF strict # <<>> THEN strict ELSE FindMultiline(text, 1)
         IN  BuildCalls(matches, {}, 1)

-----------------------------------------------------------------------------
(* mistral_adapter.patched_generate_stream, for a Mistral-family request    *)
(* with tools (lines 121-216)                                               *)

LOOKBACK_SIZE == 3

MistralMarkerText ==
    <<"x">> \o TOOL_MARKER_START \o <<"f", "[ARGS]", "{", "k:1", "}">>

\* two calls in one response
MistralTwoCallsText ==
    TOOL_MARKER_START \o <<"f", "[ARGS]", "{", "k:1", "}">>
    \o TOOL_MARKER_START \o <<"g", "[ARGS]", "{", "k:1", "}">>

MistralTexts ==
    { <<"x", "y">>,
      MistralMarkerText,
      MistralTwoCallsText,
      <<"x">> \o TOOL_MARKER_PARTIAL \o <<"y">>,
      TOOL_MARKER_START \o <<"f", "[ARGS]", "{", "k:1">> }

\* a chunk of the chunk protocol; n numbers the backend's chunks
MistralChunk(n, content, finish) ==
    [n |-> n, content |-> content, finish |-> finish, tool_calls |-> <<>>]

MistralInit ==
    /\ m_pc = "streaming"
    /\ m_text \in MistralTexts
    /\ m_pos = 0
    /\ m_count = 0
    /\ m_final_seen = FALSE
    /\ lookback_buffer = <<>>
    /\ text_parts = <<>>
    /\ all_chunks = <<>>
    /\ tool_marker_detected = FALSE
    /\ m_accumulated_text = <<>>
    /\ m_out = <<>>

MistralIdle ==
    /\ m_pc = "idle"
    /\ m_text = <<>>
    /\ m_pos = 0
    /\ m_count = 0
    /\ m_final_seen = FALSE
    /\ lookback_buffer = <<>>
    /\ text_parts = <<>>
    /\ all_chunks = <<>>
    /\ tool_marker_detected = FALSE
    /\ m_accumulated_text = <<>>
    /\ m_out = <<>>

\* the chunks the backend may yield next: a piece of its text, a chunk
\* without content, or (once) its last chunk, which carries the finish reason
MistralNextChunks ==
    IF m_final_seen THEN {}
    ELSE { MistralChunk(m_count + 1, SubSeq(m_text, m_pos + 1, m_pos + n), "") :
             n \in 0..(Len(m_text) - m_pos) }
         \cup (IF m_pos = Len(m_text)
               THEN {MistralChunk(m_count + 1, <<>>, "stop")} ELSE {})

\* a slip that would look for the marker in the chunk just received
MarkerSeenInChunk(accumulated, content) == Contains(content, TOOL_MARKER_PARTIAL)

\* lines 150-151: the partial marker is looked for in the accumulated text
MarkerSeen(accumulated, content) == Contains(accumulated, TOOL_MARKER_PARTIAL)

\* deque(maxlen=LOOKBACK_SIZE).append, line 161
DequeAppend(buffer, chunk) ==
    IF Len(buffer) = LOOKBACK_SIZE THEN Append(Tail(buffer), chunk)
    ELSE Append(buffer, chunk)

\* lines 134-165: the body of the loop over the original stream
MistralConsume ==
    /\ m_pc = "streaming"
    /\ m_count < MaxMistralChunks
    /\ \E chunk \in MistralNextChunks :
         LET accumulated == m_accumulated_text \o chunk.content
             buffer == DequeAppend(lookback_buffer, chunk)
         IN  /\ m_count' = m_count + 1
             /\ m_pos' = m_pos + Len(chunk.content)
             /\ m_final_seen' = (chunk.finish # "")
             /\ all_chunks' = Append(all_chunks, chunk)
             /\ text_parts' = IF chunk.content # <<>>
                              THEN Append(text_parts, chunk.content) ELSE text_parts
             /\ m_accumulated_text' = accumulated
             /\ IF tool_marker_detected \/ MarkerSeen(accumulated, chunk.content)
                THEN /\ tool_marker_detected' = TRUE
                     /\ UNCHANGED <<lookback_buffer, m_out>>
                ELSE /\ UNCHANGED tool_marker_detected
                     /\ lookback_buffer' = buffer
                     /\ m_out' = IF Len(buffer) = LOOKBACK_SIZE
                                 THEN Append(m_out, buffer[1]) ELSE m_out
    /\ UNCHANGED <<m_pc, m_text>>
    /\ UNCHANGED notMistral

RECURSIVE Join(_)
Join(parts) == IF parts = <<>> THEN <<>> ELSE Head(parts) \o Join(Tail(parts))

\* a slip that would tag every call with index 0
ToolCallsChunkUntagged(parsed) ==
    [n |-> 0, content |-> <<>>, finish |-> "tool_calls",
     tool_calls |-> [i \in 1..Len(parsed) |->
                       [index |-> 0, id |-> parsed[i].id,
                        name |-> parsed[i].name,
                        arguments |-> parsed[i].arguments]]]

\* lines 176-207: the single chunk that carries all the tool calls, the
\* i-th (0-based) tagged with index i
ToolCallsChunk(parsed) ==
    [n |-> 0, content |-> <<>>, finish |-> "tool_calls",
     tool_calls |-> [i \in 1..Len(parsed) |->
                       [index |-> i - 1, id |-> parsed[i].id,
                        name |-> parsed[i].name,
                        arguments |-> parsed[i].arguments]]]

\* lines 167-216: after the original stream is exhausted
MistralFinish ==
    /\ m_pc = "streaming"
    /\ m_pos = Len(m_text)
    /\ LET full_text == Join(text_parts)
           parsed == IF HasMistralToolCalls(full_text)
                     THEN ParseMistralToolCalls(full_text) ELSE <<>>
       IN  m_out' = IF tool_marker_detected
                    THEN IF parsed # <<>>
                         THEN Append(m_out, ToolCallsChunk(parsed))
                         ELSE m_out \o all_chunks
                    ELSE m_out \o lookback_buffer
    /\ m_pc' = "done"
    /\ UNCHANGED <<m_text, m_pos, m_count, m_final_seen, lookback_buffer,
                   text_parts, all_chunks, tool_marker_detected,
                   m_accumulated_text>>
    /\ UNCHANGED notMistral

-----------------------------------------------------------------------------
(* parse_mistral_tool_calls called twice on one text                        *)

\* the tokens an argument text is made of ("x" is a token that is no JSON)
ArgTokens == {"{", "k:1", "}", "x"}

ArgTexts == UNION { [1..n -> ArgTokens] : n \in 0..MaxArgLen }

\* the texts handed to the parser: one call with any argument text, two
\* calls, the same call twice, and a text without any marker
ParserTexts ==
    { TOOL_MARKER_START \o <<"f", "[ARGS]">> \o a : a \in ArgTexts }
    \cup { MistralTwoCallsText, MistralMarkerText \o MistralMarkerText, <<"x", "y">> }

\* the values of uuid.uuid4().hex[:8]
Uuids == {"u1", "u2"}

\* line 83: each record's id is a fresh uuid
DrawIds(records, ids) ==
    [i \in DOMAIN records |-> [records[i] EXCEPT !.id = ids[i]]]

ParserInit ==
    /\ parse_pc = "ready"
    /\ parse_text \in ParserTexts
    /\ parse_first = <<>>
    /\ parse_second = <<>>

ParserIdle ==
    /\ parse_pc = "idle"
    /\ parse_text = <<>>
    /\ parse_first = <<>>
    /\ parse_second = <<>>

\* the first call of parse_mistral_tool_calls(parse_text)
ParseOnce ==
    /\ parse_pc = "ready"
    /\ LET records == ParseMistralToolCalls(parse_text)
       IN  \E ids \in [DOMAIN records -> Uuids] :
               parse_first' = DrawIds(records, ids)
    /\ parse_pc' = "once"
    /\ UNCHANGED <<parse_text, parse_second>>
    /\ UNCHANGED notParser

\* the second call, on the same text
ParseAgain ==
    /\ parse_pc = "once"
    /\ LET records == ParseMistralToolCalls(parse_text)
       IN  \E ids \in [DOMAIN records -> Uuids] :
               parse_second' = DrawIds(records, ids)
    /\ parse_pc' = "twice"
    /\ UNCHANGED <<parse_text, parse_first>>
    /\ UNCHANGED notParser

-----------------------------------------------------------------------------
(* gpt_oss_adapter.extract_final_channel, on texts whose tokens are the     *)
(* special tokens of the channel format, words, and JSON tokens             *)

CHANNEL == "<|channel|>"
MESSAGE == "<|message|>"
END_TOKEN == "<|end|>"
START_TOKEN == "<|start|>"
CALL_TOKEN == "<|call|>"
CONSTRAIN == "<|constrain|>"

\* the tokens of the form <|...|>
SpecialTokens == {CHANNEL, MESSAGE, END_TOKEN, START_TOKEN, CALL_TOKEN, CONSTRAIN}

\* the lookahead of the channel pattern, line 38: what ends a content
ContentStops == {END_TOKEN, START_TOKEN, CHANNEL, CALL_TOKEN}

\* the tokens the special_tokens pattern strips, line 43
StrippedTokens == {START_TOKEN, END_TOKEN, CALL_TOKEN, CONSTRAIN}

\* first position >= i holding a token of the set (Len + 1 when none)
RECURSIVE FirstIn(_, _, _)
FirstIn(text, i, set) ==
    IF i > Len(text) THEN Len(text) + 1
    ELSE IF text[i] \in set THEN i
    ELSE FirstIn(text, i + 1, set)

\* the channel pattern at position i (line 38): <|channel|>, a name free of
\* special tokens, <|message|>, the content up to the next stop or the end
ChannelMatches(text, i) ==
    LET nameEnd == FirstIn(text, i + 1, SpecialTokens)
    IN  /\ text[i] = CHANNEL
        /\ nameEnd > i + 1
        /\ nameEnd <= Len(text)
        /\ text[nameEnd] = MESSAGE

ChannelAt(text, i) ==
    LET nameEnd == FirstIn(text, i + 1, SpecialTokens)
        stop == FirstIn(text, nameEnd + 1, ContentStops)
    IN  [name |-> SubSeq(text, i + 1, nameEnd - 1),
         content |-> SubSeq(text, nameEnd + 1, stop - 1),
         next |-> stop]

\* patterns['channel'].findall(text), line 66
RECURSIVE FindChannels(_, _)
FindChannels(text, i) ==
    IF i > Len(text) THEN <<>>
    ELSE IF ChannelMatches(text, i)
         THEN <<ChannelAt(text, i)>> \o FindChannels(text, ChannelAt(text, i).next)
         ELSE FindChannels(text, i + 1)

\* line 72: channel_name.split()[0]
CleanName(match) == match.name[1]

InternalChannels == {"commentary", "analysis"}

\* patterns['special_tokens'].sub('', text), lines 84 and 94: a stripped
\* token goes with the text that follows it, up to the next "<"
RECURSIVE StripSpecial(_, _)
StripSpecial(text, i) ==
    IF i > Len(text) THEN <<>>
    ELSE IF text[i] \in StrippedTokens
         THEN StripSpecial(text, FirstIn(text, i + 1, SpecialTokens))
         ELSE <<text[i]>> \o StripSpecial(text, i + 1)

\* re.sub(r'<\|[^|]+\|>', '', cleaned), line 95
RemoveTokens(text) == SelectSeq(text, LAMBDA t : t \notin SpecialTokens)

\* extract_final_channel, lines 52-98
ExtractFinalChannel(text) ==
    LET matches == FindChannels(text, 1)
        kept == SelectSeq(matches, LAMBDA m : CleanName(m) \notin InternalChannels)
        finals == SelectSeq(kept, LAMBDA m : CleanName(m) = "final")
        has_internal_channels ==
            \E k \in DOMAIN matches : CleanName(matches[k]) \in InternalChannels
        cleaned == RemoveTokens(StripSpecial(text, 1))
    IN  IF ~\E k \in DOMAIN text : text[k] \in {CHANNEL, START_TOKEN} THEN text
        ELSE IF finals # <<>> THEN StripSpecial(finals[1].content, 1)
        ELSE IF has_internal_channels THEN <<>>
        ELSE IF cleaned # <<>> THEN cleaned
        ELSE text

-----------------------------------------------------------------------------
(* gpt_oss_tools_parser.py; a token to=functions.NAME names the function    *)

FunctionRefs == {"to=functions.f", "to=functions.g"}

FunctionName(ref) == IF ref = "to=functions.f" THEN <<"f">> ELSE <<"g">>

\* has_harmony_tool_calls, lines 147-162
HasHarmonyToolCalls(text) ==
    /\ text # <<>>
    /\ \E k \in DOMAIN text : text[k] \in FunctionRefs

\* `(\{[^}]*\})` at position open: the position of the closing brace (0
\* when the pattern does not match there)
BracesAt(text, open) ==
    IF open <= Len(text) /\ text[open] = "{"
          /\ FirstIn(text, open + 1, {"}"}) <= Len(text)
    THEN FirstIn(text, open + 1, {"}"})
    ELSE 0

\* `commentary\s+to=functions\.(\w+)(?:\s+json|<\|constrain\|>json)?
\* <\|message\|>` from position i: where the arguments begin (0 when the
\* head does not match); with_constrain tells pattern 1 from pattern 2
CommentaryHead(text, i, with_constrain) ==
    LET at(k) == IF k <= Len(text) THEN text[k] ELSE ""
        j == IF at(i + 2) = "json" THEN i + 3
             ELSE IF with_constrain /\ at(i + 2) = CONSTRAIN /\ at(i + 3) = "json"
                  THEN i + 4
             ELSE i + 2
    IN  IF at(i) = "commentary" /\ at(i + 1) \in FunctionRefs /\ at(j) = MESSAGE
        THEN j + 1 ELSE 0

\* HARMONY_PATTERNS[0].findall, lines 34-37
RECURSIVE FindPattern1(_, _)
FindPattern1(text, i) ==
    IF i > Len(text) THEN <<>>
    ELSE LET a == IF text[i] = CHANNEL THEN CommentaryHead(text, i + 1, TRUE) ELSE 0
             close == IF a # 0 THEN BracesAt(text, a) ELSE 0
         IN  IF close # 0
             THEN <<[name |-> FunctionName(text[i + 2]), args |-> SubSeq(text, a, close)]>>
                  \o FindPattern1(text, close + 1)
             ELSE FindPattern1(text, i + 1)

\* HARMONY_PATTERNS[1].findall, lines 39-42
RECURSIVE FindPattern2(_, _)
FindPattern2(text, i) ==
    IF i + 2 > Len(text) THEN <<>>
    ELSE LET a == IF text[i] = START_TOKEN /\ text[i + 1] = "assistant"
                      /\ text[i + 2] = CHANNEL
                   THEN CommentaryHead(text, i + 3, FALSE) ELSE 0
             close == IF a # 0 THEN BracesAt(text, a) ELSE 0
         IN  IF close # 0
             THEN <<[name |-> FunctionName(text[i + 4]), args |-> SubSeq(text, a, close)]>>
                  \o FindPattern2(text, close + 1)
             ELSE FindPattern2(text, i + 1)

\* HARMONY_PATTERNS[2].findall, lines 44-47: the function reference, then
\* the first "{" and the first "}" after it
RECURSIVE FindPattern3(_, _)
FindPattern3(text, i) ==
    IF i > Len(text) THEN <<>>
    ELSE LET open == IF text[i] \in FunctionRefs
                     THEN FirstIn(text, i + 1, {"{"}) ELSE 0
             close == IF open # 0 THEN BracesAt(text, open) ELSE 0
         IN  IF close # 0
             THEN <<[name |-> FunctionName(text[i]), args |-> SubSeq(text, open, close)]>>
                  \o FindPattern3(text, close + 1)
             ELSE FindPattern3(text, i + 1)

\* lines 85-96: json.loads, else the key/value pairs ("" when none)
HarmonyParseArgs(args_str) ==
    IF JsonLoads(args_str).ok THEN JsonLoads(args_str).value
    ELSE ParseMalformedJson(args_str)

\* lines 73-102: deduplicate, parse the arguments, drop the unparsable
RECURSIVE HarmonyBuildCalls(_, _, _)
HarmonyBuildCalls(matches, seen, k) ==
    IF matches = <<>> THEN <<>>
    ELSE LET m == Head(matches)
             arguments == HarmonyParseArgs(m.args)
         IN  IF m \in seen THEN HarmonyBuildCalls(Tail(matches), seen, k)
             ELSE IF arguments = ""
                  THEN HarmonyBuildCalls(Tail(matches), seen \cup {m}, k)
                  ELSE <<[id |-> k, name |-> m.name, arguments |-> arguments]>>
                       \o HarmonyBuildCalls(Tail(matches), seen \cup {m}, k + 1)

\* parse_harmony_tool_calls, lines 51-104 (ids number the calls of one parse)
ParseHarmonyToolCalls(text) ==
    IF ~\E k \in DOMAIN text : text[k] \in FunctionRefs THEN <<>>
    ELSE HarmonyBuildCalls(FindPattern1(text, 1) \o FindPattern2(text, 1)
                           \o FindPattern3(text, 1), {}, 1)

-----------------------------------------------------------------------------
(* gpt_oss_adapter.patched_generate_stream, for a GPT-OSS model (lines      *)
(* 242-324)                                                                 *)

AnalysisSegment == <<CHANNEL, "analysis", MESSAGE, "t", END_TOKEN>>
FinalSegment ==
    <<START_TOKEN, "assistant", CHANNEL, "final", MESSAGE, "d", END_TOKEN>>
CallSegment ==
    <<CHANNEL, "commentary", "to=functions.f", "json", MESSAGE,
      "{", "k:1", "}", CALL_TOKEN>>
\* a call whose arguments hold no key/value pair
BadCallSegment ==
    <<CHANNEL, "commentary", "to=functions.f", "json", MESSAGE,
      "{", "x", "}", CALL_TOKEN>>
\* the same call in the format with <|constrain|>
ConstrainCallSegment ==
    <<CHANNEL, "commentary", "to=functions.f", CONSTRAIN, "json", MESSAGE,
      "{", "x", "}", CALL_TOKEN>>
\* text outside any channel
PlainSegment == <<"p">>

Segments ==
    {AnalysisSegment, FinalSegment, CallSegment, BadCallSegment,
     ConstrainCallSegment, PlainSegment}

\* the backend's texts: up to MaxSegments segments in any order
OssTexts ==
    { Join(segs) : segs \in UNION { [1..n -> Segments] : n \in 0..MaxSegments } }

\* a chunk of the chunk protocol
OssChunk(content, finish, tcs) ==
    [content |-> content, finish |-> finish, tool_calls |-> tcs]

GptOssInit ==
    /\ o_pc = "streaming"
    /\ o_text \in OssTexts
    /\ o_pos = 0
    /\ o_final_seen = FALSE
    /\ o_accumulated_text = <<>>
    /\ buffered_chunks = <<>>
    /\ o_out = <<>>

GptOssIdle ==
    /\ o_pc = "idle"
    /\ o_text = <<>>
    /\ o_pos = 0
    /\ o_final_seen = FALSE
    /\ o_accumulated_text = <<>>
    /\ buffered_chunks = <<>>
    /\ o_out = <<>>

\* the chunks the backend may yield next: a piece of its text, or (once,
\* after all the text) its last chunk with the finish reason
OssNextChunks ==
    IF o_final_seen THEN {}
    ELSE { OssChunk(SubSeq(o_text, o_pos + 1, o_pos + n), "", <<>>) :
             n \in 1..(Len(o_text) - o_pos) }
         \cup (IF o_pos = Len(o_text)
               THEN {OssChunk(<<>>, "stop", <<>>), OssChunk(<<>>, "length", <<>>)}
               ELSE {})

\* lines 248-260: every chunk is buffered
GptOssConsume ==
    /\ o_pc = "streaming"
    /\ Len(buffered_chunks) < MaxOssChunks
    /\ \E chunk \in OssNextChunks :
         /\ o_pos' = o_pos + Len(chunk.content)
         /\ o_final_seen' = (chunk.finish # "")
         /\ o_accumulated_text' = o_accumulated_text \o chunk.content
         /\ buffered_chunks' = Append(buffered_chunks, chunk)
    /\ UNCHANGED <<o_pc, o_text, o_out>>
    /\ UNCHANGED notGptOss

\* lines 262-324: after the original stream is exhausted
GptOssFinish ==
    /\ o_pc = "streaming"
    /\ o_final_seen
    /\ LET parsed_tools == IF HasHarmonyToolCalls(o_accumulated_text)
                           THEN ParseHarmonyToolCalls(o_accumulated_text)
                           ELSE <<>>
           final_content == IF parsed_tools # <<>> THEN <<>>
                            ELSE ExtractFinalChannel(o_accumulated_text)
           finish == IF parsed_tools # <<>> THEN "tool_calls" ELSE "stop"
       IN  o_out' = IF o_accumulated_text # <<>>
                    THEN <<OssChunk(final_content, "", <<>>),
                           OssChunk(<<>>, finish, parsed_tools)>>
                    ELSE buffered_chunks
    /\ o_pc' = "done"
    /\ UNCHANGED <<o_text, o_pos, o_final_seen, o_accumulated_text, buffered_chunks>>
    /\ UNCHANGED notGptOss

-----------------------------------------------------------------------------
(* GGUFBackend.generate_stream: the loop over the lines of the SSE response *)
(* (gguf_backend.py lines 374-386). A line is a sequence of tokens: its     *)
(* field prefix, then the tokens of its payload.                            *)

DataPrefix == "data: "
DoneData == <<"[DONE]">>

\* payloads of data lines: two JSON objects, a truncated object, the end mark
SsePayloads == {<<"{", "c1", "}">>, <<"{", "c2", "}">>, <<"{", "c1">>, DoneData}

\* the empty line between events, a line of another field, and data lines
SseLineSet ==
    {<<>>, <<"event: ", "ping">>} \cup {<<DataPrefix>> \o p : p \in SsePayloads}

\* json.loads(data): the parsed value, or JSONDecodeError
SseJsonLoads(data) ==
    IF Len(data) = 3 /\ data[1] = "{" /\ data[3] = "}"
    THEN [ok |-> TRUE, value |-> data[2]]
    ELSE [ok |-> FALSE, value |-> ""]

\* a slip that would end the loop at the first undecodable line
AfterDecodeErrorBreak(data) == "done"

\* lines 384-386: the except branch logs and continues with the next line
AfterDecodeError(data) == "reading"

\* the responses: every sequence of at most MaxLines lines
SseResponses == UNION { [1..n -> SseLineSet] : n \in 0..MaxLines }

SseInit ==
    /\ sse_pc = "reading"
    /\ sse_lines \in SseResponses
    /\ sse_pos = 0
    /\ sse_out = <<>>

SseIdle ==
    /\ sse_pc = "idle"
    /\ sse_lines = <<>>
    /\ sse_pos = 0
    /\ sse_out = <<>>

\* lines 374-386: one iteration of `async for line in response.aiter_lines()`
SseReadLine ==
    /\ sse_pc = "reading"
    /\ sse_pos < Len(sse_lines)
    /\ LET line == sse_lines[sse_pos + 1]
           data == Tail(line)
           chunk == SseJsonLoads(data)
       IN  /\ sse_pos' = sse_pos + 1
           /\ IF line = <<>> THEN
                  UNCHANGED <<sse_pc, sse_out>>
              ELSE IF Head(line) # DataPrefix THEN
                  UNCHANGED <<sse_pc, sse_out>>
              ELSE IF data = DoneData THEN
                  /\ sse_pc' = "done"
                  /\ UNCHANGED sse_out
              ELSE IF chunk.ok THEN
                  /\ sse_out' = Append(sse_out, chunk.value)
                  /\ UNCHANGED sse_pc
              ELSE
                  /\ sse_pc' = AfterDecodeError(data)
                  /\ UNCHANGED sse_out
    /\ UNCHANGED sse_lines
    /\ UNCHANGED notSse

\* the response ends without a "[DONE]" line: the loop is exhausted
SseExhausted ==
    /\ sse_pc = "reading"
    /\ sse_pos = Len(sse_lines)
    /\ sse_pc' = "done"
    /\ UNCHANGED <<sse_lines, sse_pos, sse_out>>
    /\ UNCHANGED notSse

-----------------------------------------------------------------------------
(* The branch both dialect wrappers take before they look at any chunk      *)
(* (gpt_oss_adapter.py lines 224-229, mistral_adapter.py lines 102-119).    *)
(* A model id is a sequence of tokens; `x in model_lower` is membership of  *)
(* the token x.                                                             *)

ModelIds ==
    {<<>>, <<"qwen3">>, <<"GPT-OSS", "-20b">>, <<"gpt_oss">>, <<"Devstral">>,
     <<"mistral", "-7b">>, <<"ministral">>, <<"Mistral", "-", "gpt-oss">>}

\* str.lower() on one token
LowerToken(tok) ==
    CASE tok = "GPT-OSS" -> "gpt-oss"
      [] tok = "Devstral" -> "devstral"
      [] tok = "Mistral" -> "mistral"
      [] OTHER -> tok

Lower(model_id) == [i \in DOMAIN model_id |-> LowerToken(model_id[i])]

TokensOf(s) == {s[i] : i \in DOMAIN s}

\* gpt_oss_adapter.py lines 23-28
IsGptOssModel(model_id) ==
    IF model_id = <<>> THEN FALSE
    ELSE "gpt-oss" \in TokensOf(Lower(model_id))
         \/ "gpt_oss" \in TokensOf(Lower(model_id))

\* mistral_adapter.py lines 42-51
IsMistralModel(model_id) ==
    IF model_id = <<>> THEN FALSE
    ELSE \E x \in {"devstral", "mistral", "ministral"} :
            x \in TokensOf(Lower(model_id))

\* request.tools: absent (None), an empty list, or a list of tools
ToolsValues ==
    {[given |-> FALSE, list |-> <<>>], [given |-> TRUE, list |-> <<>>],
     [given |-> TRUE, list |-> <<"t">>]}

\* Python's `not request.tools`
NotTools(tools) == ~tools.given \/ tools.list = <<>>

\* a slip that would process every Mistral-family request, tools or not
PassesThroughFamilyOnly(wrapper, model_id, tools) ==
    IF wrapper = "gpt_oss" THEN ~IsGptOssModel(model_id)
    ELSE ~IsMistralModel(model_id)

\* gpt_oss_adapter.py lines 227-229; mistral_adapter.py lines 112-119
PassesThrough(wrapper, model_id, tools) ==
    IF wrapper = "gpt_oss" THEN ~IsGptOssModel(model_id)
    ELSE IF ~IsMistralModel(model_id) THEN TRUE
    ELSE NotTools(tools)

SourceChunks == {"c1", "c2", "c3"}

WrapperInit ==
    /\ w_pc = "called"
    /\ w_wrapper \in {"gpt_oss", "mistral"}
    /\ w_model \in ModelIds
    /\ w_tools \in ToolsValues
    /\ w_source \in UNION { [1..n -> SourceChunks] : n \in 0..MaxPassChunks }
    /\ w_produced = 0
    /\ w_out = <<>>

WrapperIdle ==
    /\ w_pc = "idle"
    /\ w_wrapper = ""
    /\ w_model = <<>>
    /\ w_tools = [given |-> FALSE, list |-> <<>>]
    /\ w_source = <<>>
    /\ w_produced = 0
    /\ w_out = <<>>

\* the tests at the head of patched_generate_stream; a request that is not
\* passed through goes on to the wrapper's own loop (GptOssConsume,
\* MistralConsume)
WrapperEnter ==
    /\ w_pc = "called"
    /\ w_pc' = IF PassesThrough(w_wrapper, w_model, w_tools)
               THEN "passing" ELSE "processing"
    /\ UNCHANGED <<w_wrapper, w_model, w_tools, w_source, w_produced, w_out>>
    /\ UNCHANGED notWrapper

\* `yield from original_generate_stream(self, request)`: the original
\* produces its next chunk and the wrapper yields that chunk
WrapperPass ==
    /\ w_pc = "passing"
    /\ w_produced < Len(w_source)
    /\ w_produced' = w_produced + 1
    /\ w_out' = Append(w_out, w_source[w_produced + 1])
    /\ UNCHANGED <<w_pc, w_wrapper, w_model, w_tools, w_source>>
    /\ UNCHANGED notWrapper

\* the original generator is exhausted; `return`
WrapperReturn ==
    /\ w_pc = "passing"
    /\ w_produced = Len(w_source)
    /\ w_pc' = "done"
    /\ UNCHANGED <<w_wrapper, w_model, w_tools, w_source, w_produced, w_out>>
    /\ UNCHANGED notWrapper

-----------------------------------------------------------------------------
(* KVCacheManager (kv_cache.py). A cache key stands for the conversation    *)
(* prefix and model it is computed from; the cached values and the hit      *)
(* counters are left out. What the file system does to a save, a load or an *)
(* unlink is an input of the call.                                          *)

\* self.max_slots (line 30)
max_slots == 3

CacheKeys == {"a1", "a2", "b1", "c1"}

\* the slot_id of persist_slot: a key, or the beginning of one
SlotIds == CacheKeys \cup {"a", "z"}

\* str.startswith
StartsWith(key, slot_id) ==
    \/ key = slot_id
    \/ slot_id = "a" /\ key \in {"a1", "a2"}

Without(s, key) == SelectSeq(s, LAMBDA x : x # key)

\* OrderedDict.move_to_end(key)
MoveToEnd(s, key) == Append(Without(s, key), key)

\* OrderedDict.__setitem__: a new key goes to the end, an existing key keeps
\* its place
SetItem(s, key) == IF key \in TokensOf(s) THEN s ELSE Append(s, key)

\* lines 148-150: popitem(last=False) while len(self.slots) >= self.max_slots
EvictOldest(s) ==
    LET n == IF Len(s) >= max_slots THEN Len(s) - max_slots + 1 ELSE 0
    IN  [evicted |-> SubSeq(s, 1, n), slots |-> SubSeq(s, n + 1, Len(s))]

\* the order of recent use, kept for the keys that are in memory
Used(order, key, in_memory) ==
    SelectSeq(MoveToEnd(order, key), LAMBDA x : x \in TokensOf(in_memory))

Forgotten(order, in_memory) ==
    SelectSeq(order, LAMBDA x : x \in TokensOf(in_memory))

\* the orders in which `for cache_key in list(self.persisted_keys)` may run
Orders(S) ==
    {s \in [1..Cardinality(S) -> S] : \A i, j \in DOMAIN s : s[i] = s[j] => i = j}

\* lines 29-40: no slot in memory; the index of a previous session is loaded
KvInit ==
    /\ kv_pc = "ready"
    /\ slots = <<>>
    /\ persisted_keys \in SUBSET CacheKeys
    /\ kv_lock = ""
    /\ kv_caller = ""
    /\ delete_key = ""
    /\ clear_pending = <<>>
    /\ recency = <<>>
    /\ kv_evicted = <<>>

KvIdle ==
    /\ kv_pc = "idle"
    /\ slots = <<>>
    /\ persisted_keys = {}
    /\ kv_lock = ""
    /\ kv_caller = ""
    /\ delete_key = ""
    /\ clear_pending = <<>>
    /\ recency = <<>>
    /\ kv_evicted = <<>>

\* lines 80-140: get_cache; `short` is len(messages) < 2, `loads` is whether
\* _load_from_disk finds and unpickles the entry
GetCache ==
    /\ kv_pc = "ready"
    /\ kv_lock = ""
    /\ \E cache_key \in CacheKeys, short \in BOOLEAN, loads \in BOOLEAN :
         IF short THEN
             UNCHANGED <<slots, recency>>
         ELSE IF cache_key \in TokensOf(slots) THEN
             /\ slots' = MoveToEnd(slots, cache_key)
             /\ recency' = Used(recency, cache_key, slots')
         ELSE IF cache_key \in persisted_keys /\ loads THEN
             /\ slots' = SetItem(slots, cache_key)
             /\ recency' = Used(recency, cache_key, slots')
         ELSE
             UNCHANGED <<slots, recency>>
    /\ kv_evicted' = <<>>
    /\ UNCHANGED <<kv_pc, persisted_keys, kv_lock, kv_caller, delete_key,
                   clear_pending>>
    /\ UNCHANGED notKv

\* lines 142-165 and 167-196: store_cache; `saved` is whether _save_to_disk
\* writes both files
StoreCache ==
    /\ kv_pc = "ready"
    /\ kv_lock = ""
    /\ \E cache_key \in CacheKeys, persist \in BOOLEAN, saved \in BOOLEAN :
         LET room == EvictOldest(slots)
         IN  /\ slots' = SetItem(room.slots, cache_key)
             /\ kv_evicted' = room.evicted
             /\ recency' = Used(recency, cache_key, slots')
             /\ persisted_keys' = IF persist /\ saved
                                  THEN persisted_keys \cup {cache_key}
                                  ELSE persisted_keys
    /\ UNCHANGED <<kv_pc, kv_lock, kv_caller, delete_key, clear_pending>>
    /\ UNCHANGED notKv

\* lines 198-217: persist_slot
PersistSlot ==
    /\ kv_pc = "ready"
    /\ kv_lock = ""
    /\ \E slot_id \in SlotIds, saved \in BOOLEAN :
         LET matching == SelectSeq(slots, LAMBDA k : StartsWith(k, slot_id))
             found == slot_id \in TokensOf(slots) \/ matching # <<>>
         IN  persisted_keys' =
                 IF found /\ saved
                 THEN persisted_keys \cup
                        {IF slot_id \in TokensOf(slots) THEN slot_id ELSE matching[1]}
                 ELSE persisted_keys
    /\ kv_evicted' = <<>>
    /\ UNCHANGED <<kv_pc, slots, kv_lock, kv_caller, delete_key, clear_pending,
                   recency>>
    /\ UNCHANGED notKv

\* lines 235-245: the part of delete_persisted that runs before it takes the
\* lock; when an unlink raises, the except branch returns False
DeleteFiles(cache_key, unlinked, caller, return_pc) ==
    IF unlinked
    THEN /\ persisted_keys' = persisted_keys \ {cache_key}
         /\ kv_pc' = "deleting"
         /\ delete_key' = cache_key
         /\ kv_caller' = caller
    ELSE /\ kv_pc' = return_pc
         /\ UNCHANGED <<persisted_keys, delete_key, kv_caller>>

\* lines 233-245: delete_persisted called by a client
DeletePersisted ==
    /\ kv_pc = "ready"
    /\ \E cache_key \in CacheKeys, unlinked \in BOOLEAN :
         DeleteFiles(cache_key, unlinked, "", "ready")
    /\ kv_evicted' = <<>>
    /\ UNCHANGED <<slots, kv_lock, clear_pending, recency>>
    /\ UNCHANGED notKv

\* lines 247-252: `with self.lock:` of delete_persisted, then return True to
\* the caller
DeleteLocked ==
    /\ kv_pc = "deleting"
    /\ kv_lock = ""
    /\ slots' = Without(slots, delete_key)
    /\ recency' = Forgotten(recency, slots')
    /\ kv_pc' = IF kv_caller = "clear" THEN "clearing" ELSE "ready"
    /\ delete_key' = ""
    /\ kv_caller' = ""
    /\ UNCHANGED <<persisted_keys, kv_lock, clear_pending, kv_evicted>>
    /\ UNCHANGED notKv

\* lines 257-266: clear takes the lock and empties the memory; with
\* include_persisted it keeps the lock for the loop over the persisted keys
Clear ==
    /\ kv_pc = "ready"
    /\ kv_lock = ""
    /\ \E include_persisted \in BOOLEAN :
         IF include_persisted
         THEN /\ kv_lock' = "clear"
              /\ kv_pc' = "clearing"
              /\ clear_pending' \in Orders(persisted_keys)
         ELSE UNCHANGED <<kv_lock, kv_pc, clear_pending>>
    /\ slots' = <<>>
    /\ recency' = <<>>
    /\ kv_evicted' = <<>>
    /\ UNCHANGED <<persisted_keys, kv_caller, delete_key>>
    /\ UNCHANGED notKv

\* lines 266-267: one `self.delete_persisted(cache_key)` of the loop in clear
ClearDelete ==
    /\ kv_pc = "clearing"
    /\ clear_pending # <<>>
    /\ clear_pending' = Tail(clear_pending)
    /\ \E unlinked \in BOOLEAN :
         DeleteFiles(Head(clear_pending), unlinked, "clear", "clearing")
    /\ UNCHANGED <<slots, kv_lock, recency, kv_evicted>>
    /\ UNCHANGED notKv

\* line 268: the loop is over; leaving `with self.lock:` releases the lock
ClearEnd ==
    /\ kv_pc = "clearing"
    /\ clear_pending = <<>>
    /\ kv_lock' = ""
    /\ kv_pc' = "ready"
    /\ UNCHANGED <<slots, persisted_keys, kv_caller, delete_key, clear_pending,
                   recency, kv_evicted>>
    /\ UNCHANGED notKv

-----------------------------------------------------------------------------
(* patches.resolve_alias_with_backend (patches.py lines 61-105, 108-113,    *)
(* 130-201). Model ids, alias keys and paths are sequences of tokens; the   *)
(* tokens "*" and "?" are the wildcards of fnmatch, ".*" the one of the     *)
(* tier patterns.                                                           *)

ClaudePrefix == "claude-"

AliasModelIds ==
    {<<ClaudePrefix, "haiku", "4">>, <<ClaudePrefix, "opus">>, <<ClaudePrefix, "x">>,
     <<"qwen", "3">>, <<"llama">>}

AliasKeys ==
    {<<ClaudePrefix, "haiku", "4">>, <<ClaudePrefix, "*">>,
     <<ClaudePrefix, "haiku", "?">>, <<"qwen", "*">>,
     <<"qwen3-coder-30b">>, <<"qwen">>}

AliasTargets == {<<"/m/", "A">>, <<"~", "/B", ".gguf">>}

TierNames == {"haiku", "sonnet", "opus"}

\* fnmatch.fnmatch(name, pattern): "*" matches any run of tokens, "?" one
RECURSIVE FnMatch(_, _)
FnMatch(name, pattern) ==
    IF pattern = <<>> THEN name = <<>>
    ELSE IF Head(pattern) = "*" THEN
        \E k \in 0..Len(name) :
            FnMatch(SubSeq(name, k + 1, Len(name)), Tail(pattern))
    ELSE IF name = <<>> THEN FALSE
    ELSE IF Head(pattern) = "?" THEN FnMatch(Tail(name), Tail(pattern))
    ELSE Head(name) = Head(pattern) /\ FnMatch(Tail(name), Tail(pattern))

\* line 160
IsWildcard(pattern) == "*" \in TokensOf(pattern) \/ "?" \in TokensOf(pattern)

\* re.match(pattern, model_id): the pattern matches a beginning of model_id
ReMatch(pattern, model_id) ==
    LET glob == [i \in DOMAIN pattern |->
                    IF pattern[i] = ".*" THEN "*" ELSE pattern[i]]
    IN  \E k \in 0..Len(model_id) : FnMatch(SubSeq(model_id, 1, k), glob)

\* lines 108-113: _expand_path
ExpandPath(path) ==
    IF path # <<>> /\ Head(path) = "~" THEN <<"/home/u">> \o Tail(path) ELSE path

\* lines 82-105: _detect_backend
DetectBackend(model_path, tier_config) ==
    IF tier_config.backend # "" THEN tier_config.backend
    ELSE IF ".gguf" \in TokensOf(model_path) THEN "gguf"
    ELSE "mlx"

NoTierConfig == [model |-> <<>>, backend |-> ""]

\* lines 61-79: _detect_claude_tier
DetectClaudeTier(model_id, patterns) ==
    LET hits == {i \in DOMAIN patterns : ReMatch(patterns[i].pattern, model_id)}
    IN  IF hits # {}
        THEN patterns[CHOOSE i \in hits : \A j \in hits : i <= j].tier
        ELSE IF "haiku" \in TokensOf(model_id) THEN "haiku"
        ELSE IF "opus" \in TokensOf(model_id) THEN "opus"
        ELSE "sonnet"

\* a slip that would take the first alias in dict order that matches,
\* exactly or as a wildcard
AliasMatchInOrder(model_id, aliases) ==
    LET hits == {i \in DOMAIN aliases :
                    \/ aliases[i].key = model_id
                    \/ IsWildcard(aliases[i].key) /\ FnMatch(model_id, aliases[i].key)}
    IN  IF hits # {} THEN CHOOSE i \in hits : \A j \in hits : i <= j ELSE 0

\* lines 149-165: the alias that resolves model_id: its exact key, else the
\* first wildcard key in dict order that matches (0: none)
AliasMatch(model_id, aliases) ==
    LET exact == {i \in DOMAIN aliases : aliases[i].key = model_id}
        wild == {i \in DOMAIN aliases :
                    IsWildcard(aliases[i].key) /\ FnMatch(model_id, aliases[i].key)}
    IN  IF exact # {} THEN CHOOSE i \in exact : TRUE
        ELSE IF wild # {} THEN CHOOSE i \in wild : \A j \in wild : i <= j
        ELSE 0

\* dict.get(key), with <<>> for None
AliasGet(aliases, key) ==
    LET at == {i \in DOMAIN aliases : aliases[i].key = key}
    IN  IF at = {} THEN <<>> ELSE aliases[CHOOSE i \in at : TRUE].value

\* lines 130-201
ResolveAliasWithBackend(model_id, aliases, routing) ==
    LET hit == AliasMatch(model_id, aliases)
        tier == DetectClaudeTier(model_id, routing.patterns)
        tier_config == IF tier \in DOMAIN routing.tiers
                       THEN routing.tiers[tier] ELSE NoTierConfig
        fallback == IF AliasGet(aliases, <<"qwen3-coder-30b">>) # <<>>
                    THEN AliasGet(aliases, <<"qwen3-coder-30b">>)
                    ELSE AliasGet(aliases, <<"qwen">>)
        Plain(path) == [resolved |-> ExpandPath(path),
                        backend |-> DetectBackend(ExpandPath(path), NoTierConfig)]
    IN  IF hit # 0 THEN Plain(aliases[hit].value)
        ELSE IF model_id # <<>> /\ Head(model_id) = ClaudePrefix THEN
            IF routing.enabled /\ tier_config.model # <<>>
            THEN [resolved |-> ExpandPath(tier_config.model),
                  backend |-> DetectBackend(ExpandPath(tier_config.model), tier_config)]
            ELSE IF routing.default_model # <<>> THEN Plain(routing.default_model)
            ELSE IF fallback # <<>> THEN Plain(fallback)
            ELSE [resolved |-> model_id,
                  backend |-> DetectBackend(model_id, NoTierConfig)]
        ELSE [resolved |-> model_id, backend |-> DetectBackend(model_id, NoTierConfig)]

\* the alias files: at most MaxAliases entries with distinct keys
AliasEntries == [key : AliasKeys, value : AliasTargets]

AliasDicts ==
    UNION { {d \in [1..n -> AliasEntries] :
                \A i, j \in 1..n : d[i].key = d[j].key => i = j}
            : n \in 0..MaxAliases }

\* the routing files: each tier with or without a model
TierConfigs(tier) ==
    {NoTierConfig,
     [model |-> <<"/t/", tier>>, backend |-> IF tier = "haiku" THEN "gguf" ELSE ""]}

RoutingConfigs ==
    [enabled : BOOLEAN,
     tiers : {t \in [TierNames -> UNION {TierConfigs(x) : x \in TierNames}] :
                 \A x \in TierNames : t[x] \in TierConfigs(x)},
     default_model : {<<>>, <<"/d/", "D">>},
     patterns : {<<>>, <<[pattern |-> <<ClaudePrefix, ".*", "x">>, tier |-> "opus"]>>}]

AliasInit ==
    /\ a_pc = "called"
    /\ a_model_id \in AliasModelIds
    /\ _MODEL_ALIASES \in AliasDicts
    /\ _ROUTING_CONFIG \in RoutingConfigs
    /\ a_result = [resolved |-> <<>>, backend |-> ""]

AliasIdle ==
    /\ a_pc = "idle"
    /\ a_model_id = <<>>
    /\ _MODEL_ALIASES = <<>>
    /\ _ROUTING_CONFIG = [enabled |-> TRUE, tiers |-> [t \in TierNames |-> NoTierConfig],
                          default_model |-> <<>>, patterns |-> <<>>]
    /\ a_result = [resolved |-> <<>>, backend |-> ""]

\* one call of resolve_alias_with_backend
ResolveAlias ==
    /\ a_pc = "called"
    /\ a_result' = ResolveAliasWithBackend(a_model_id, _MODEL_ALIASES, _ROUTING_CONFIG)
    /\ a_pc' = "returned"
    /\ UNCHANGED <<a_model_id, _MODEL_ALIASES, _ROUTING_CONFIG>>
    /\ UNCHANGED notAlias

-----------------------------------------------------------------------------
(* GGUFServerManager (gguf_backend.py lines 51-259). Subprocesses are        *)
(* numbered in the order they are spawned. What the operating system does   *)
(* to a spawn, to the server's start-up and to the config file is an input  *)
(* of the call.                                                             *)

ModelPaths == {"m1.gguf", "m2.gguf"}
Ports == {8080, 8081}

\* subprocess.Popen: the server is spawned, the binary is missing
\* (FileNotFoundError), or the spawn fails otherwise
PopenOutcomes == {"spawned", "not_found", "error"}

\* _wait_for_ready and the save of the config that follows it: the server
\* answers /health, it exits before it does, it does neither within the
\* timeout, or it answers and save_gguf_config raises
ReadyOutcomes == {"ready", "exited", "timeout", "save_failed"}

\* lines 69-73: is_running
IsRunning == process # 0 /\ process \in alive

\* lines 186-210: the state stop() leaves: SIGTERM, or kill after the wait
\* timed out, ends the subprocess the handle refers to
AfterStop ==
    IF process = 0
    THEN [process |-> process, current_model |-> current_model, alive |-> alive]
    ELSE [process |-> 0, current_model |-> "", alive |-> alive \ {process}]

Call(op, model_path, raised) == [op |-> op, model |-> model_path, raised |-> raised]

\* lines 186-210: stop
ServerStop ==
    /\ srv_pc = "ready"
    /\ last_call' = Call("stop", "", FALSE)
    /\ process' = AfterStop.process
    /\ current_model' = AfterStop.current_model
    /\ alive' = AfterStop.alive
    /\ UNCHANGED <<srv_pc, port, spawned>>
    /\ UNCHANGED notServer

\* lines 83-184: start
ServerStart ==
    /\ srv_pc = "ready"
    /\ spawned < MaxSpawns
    /\ \E model_path \in ModelPaths, p \in Ports, model_exists \in BOOLEAN,
          popen \in PopenOutcomes, ready \in ReadyOutcomes :
         IF IsRunning /\ current_model = model_path /\ port = p THEN
             \* lines 105-112: already running with the same model
             /\ last_call' = Call("start", model_path, FALSE)
             /\ UNCHANGED <<process, current_model, port, alive, spawned>>
         ELSE
             LET before == IF IsRunning THEN AfterStop
                           ELSE [process |-> process, current_model |-> current_model,
                                 alive |-> alive]
                 child == spawned + 1
             IN  IF ~model_exists THEN
                     \* lines 118-120: FileNotFoundError for the model
                     /\ last_call' = Call("start", model_path, TRUE)
                     /\ process' = before.process
                     /\ current_model' = before.current_model
                     /\ alive' = before.alive
                     /\ UNCHANGED <<port, spawned>>
                 ELSE IF popen = "not_found" THEN
                     \* lines 177-180
                     /\ last_call' = Call("start", model_path, TRUE)
                     /\ process' = before.process
                     /\ current_model' = before.current_model
                     /\ alive' = before.alive
                     /\ port' = p
                     /\ UNCHANGED spawned
                 ELSE IF popen = "error" THEN
                     \* lines 181-184
                     /\ last_call' = Call("start", model_path, TRUE)
                     /\ process' = 0
                     /\ current_model' = ""
                     /\ alive' = before.alive
                     /\ port' = p
                     /\ UNCHANGED spawned
                 ELSE
                     /\ spawned' = child
                     /\ port' = p
                     /\ last_call' = Call("start", model_path, ready # "ready")
                     /\ IF ready = "ready" THEN
                            \* lines 159-175
                            /\ process' = child
                            /\ current_model' = model_path
                            /\ alive' = before.alive \cup {child}
                        ELSE
                            \* lines 181-184: the handle is dropped; the
                            \* subprocess is running unless it has exited
                            /\ process' = 0
                            /\ current_model' = ""
                            /\ alive' = IF ready = "exited" THEN before.alive
                                        ELSE before.alive \cup {child}
    /\ UNCHANGED srv_pc
    /\ UNCHANGED notServer

\* a running llama-server exits on its own
ServerExits ==
    /\ srv_pc = "ready"
    /\ \E child \in alive : alive' = alive \ {child}
    /\ last_call' = Call("exit", "", FALSE)
    /\ UNCHANGED <<srv_pc, process, current_model, port, spawned>>
    /\ UNCHANGED notServer

\* lines 54-58: __init__
ServerInit ==
    /\ srv_pc = "ready"
    /\ process = 0
    /\ current_model = ""
    /\ port = 8080
    /\ alive = {}
    /\ spawned = 0
    /\ last_call = Call("", "", FALSE)

ServerIdle ==
    /\ srv_pc = "idle"
    /\ process = 0
    /\ current_model = ""
    /\ port = 8080
    /\ alive = {}
    /\ spawned = 0
    /\ last_call = Call("", "", FALSE)

-----------------------------------------------------------------------------
(* ModelManager.start_download and _download_model (models.py lines         *)
(* 125-179). Callers and download threads run concurrently; the lock covers *)
(* lines 127-135 only, so that part of a call is one step.                  *)

Repos == {"r1", "r2"}

NoneOf == [r \in Repos |-> 0]

\* lines 127-135: the part of start_download under self._download_lock; a
\* call that finds the status "downloading" returns 'already_downloading'
StartDownload ==
    /\ dl_pc = "ready"
    /\ dl_calls < MaxDownloadCalls
    /\ dl_calls' = dl_calls + 1
    /\ \E repo_id \in Repos :
         IF downloads[repo_id] = "downloading"
         THEN UNCHANGED <<downloads, dl_entered>>
         ELSE /\ downloads' = [downloads EXCEPT ![repo_id] = "starting"]
              /\ dl_entered' = [dl_entered EXCEPT ![repo_id] = @ + 1]
    /\ UNCHANGED <<dl_pc, dl_created, dl_running>>
    /\ UNCHANGED notDownload

\* lines 137-145: thread.start() and the return of 'started'
ThreadStart ==
    /\ dl_pc = "ready"
    /\ \E repo_id \in Repos :
         /\ dl_entered[repo_id] > 0
         /\ dl_entered' = [dl_entered EXCEPT ![repo_id] = @ - 1]
         /\ dl_created' = [dl_created EXCEPT ![repo_id] = @ + 1]
    /\ UNCHANGED <<dl_pc, downloads, dl_running, dl_calls>>
    /\ UNCHANGED notDownload

\* lines 149-156: the thread imports huggingface_hub and sets the status
\* "downloading"; a failing import goes to the except branch (173-179)
ThreadBegin ==
    /\ dl_pc = "ready"
    /\ \E repo_id \in Repos, imported \in BOOLEAN :
         /\ dl_created[repo_id] > 0
         /\ dl_created' = [dl_created EXCEPT ![repo_id] = @ - 1]
         /\ IF imported
            THEN /\ downloads' = [downloads EXCEPT ![repo_id] = "downloading"]
                 /\ dl_running' = [dl_running EXCEPT ![repo_id] = @ + 1]
            ELSE /\ downloads' = [downloads EXCEPT ![repo_id] = "error"]
                 /\ UNCHANGED dl_running
    /\ UNCHANGED <<dl_pc, dl_entered, dl_calls>>
    /\ UNCHANGED notDownload

\* lines 158-179: snapshot_download returns or raises
ThreadEnd ==
    /\ dl_pc = "ready"
    /\ \E repo_id \in Repos, status \in {"completed", "error"} :
         /\ dl_running[repo_id] > 0
         /\ dl_running' = [dl_running EXCEPT ![repo_id] = @ - 1]
         /\ downloads' = [downloads EXCEPT ![repo_id] = status]
    /\ UNCHANGED <<dl_pc, dl_entered, dl_created, dl_calls>>
    /\ UNCHANGED notDownload

\* lines 39-41: __init__
DownloadInit ==
    /\ dl_pc = "ready"
    /\ downloads = [r \in Repos |-> ""]
    /\ dl_entered = NoneOf
    /\ dl_created = NoneOf
    /\ dl_running = NoneOf
    /\ dl_calls = 0

DownloadIdle ==
    /\ dl_pc = "idle"
    /\ downloads = [r \in Repos |-> ""]
    /\ dl_entered = NoneOf
    /\ dl_created = NoneOf
    /\ dl_running = NoneOf
    /\ dl_calls = 0

-----------------------------------------------------------------------------
(* The pre-warm system of routers/cache.py (lines 34-140 and 300-342).       *)
(* Request handlers call the triggers concurrently with the worker thread;   *)
(* the part of a trigger under _prewarm_lock is one step, the thread start   *)
(* that follows it another, and the worker runs in two steps: the warm-up    *)
(* itself and its finally clause.                                            *)

HaikuModel == "haiku-model"
SonnetModel == "sonnet-model"
PrewarmModels == {HaikuModel, SonnetModel}

\* the system prompt of a request ("" when it has none) and the default of
\* the manual trigger (line 311)
SystemPrompts == {"p1", "p2"}
DefaultPrompt == "You are a helpful assistant."

\* lines 46-61: "" without system content, else a digest of the content
_compute_system_prompt_hash(prompt) ==
    CASE prompt = "" -> ""
      [] prompt = "p1" -> "h1"
      [] prompt = "p2" -> "h2"
      [] OTHER -> "h0"

WarmOutcomes == {"warmed", "failed"}

Worker(model, prompt) ==
    [model |-> model, prompt |-> prompt, pc |-> "created", outcome |-> ""]

Result(kind, target, hash) ==
    [kind |-> kind, target |-> target, hash |-> hash,
     warmed_hash |-> IF target \in PrewarmModels THEN warmed_for[target] ELSE ""]

\* line 103 and line 317: a trigger gives up when a warm-up is in progress
BusyNever(warming) == FALSE
Busy(warming) == warming

\* lines 114-120: the model to warm for the model in use, "" for none
TargetModel(current, sonnet_backend) ==
    IF current = HaikuModel /\ sonnet_backend = "mlx" THEN SonnetModel
    ELSE IF current = SonnetModel THEN HaikuModel
    ELSE ""

\* lines 126-128: nothing to do for this prompt and this target
AlreadyWarmed(prompt_hash, target_model) ==
    /\ prompt_hash = last_system_prompt_hash
    /\ target_model \in warmed_models

\* lines 98-140, up to the end of the locked block
TriggerPrewarmIfNeeded ==
    /\ pw_pc = "ready"
    /\ pw_triggers < MaxTriggers
    /\ pw_triggers' = pw_triggers + 1
    /\ \E current \in PrewarmModels \cup {"other-model"},
          prompt \in SystemPrompts \cup {""},
          sonnet_backend \in {"mlx", "gguf"} :
         LET target_model == TargetModel(current, sonnet_backend)
             prompt_hash == _compute_system_prompt_hash(prompt)
         IN  IF Busy(is_warming)
             THEN /\ pw_result' = Result("busy", "", "")
                  /\ UNCHANGED <<is_warming, last_system_prompt_hash,
                                 last_model_used, pw_workers>>
             ELSE IF target_model = ""
             THEN /\ pw_result' = Result("no_target", "", "")
                  /\ UNCHANGED <<is_warming, last_system_prompt_hash,
                                 last_model_used, pw_workers>>
             ELSE IF prompt_hash = ""
             THEN /\ pw_result' = Result("no_prompt", target_model, "")
                  /\ UNCHANGED <<is_warming, last_system_prompt_hash,
                                 last_model_used, pw_workers>>
             ELSE IF AlreadyWarmed(prompt_hash, target_model)
             THEN /\ pw_result' = Result("skip", target_model, prompt_hash)
                  /\ UNCHANGED <<is_warming, last_system_prompt_hash,
                                 last_model_used, pw_workers>>
             ELSE /\ last_system_prompt_hash' = prompt_hash
                  /\ is_warming' = TRUE
                  /\ last_model_used' = current
                  /\ pw_workers' = Append(pw_workers, Worker(target_model, prompt))
                  /\ pw_result' = Result("started", target_model, prompt_hash)
    /\ UNCHANGED <<pw_pc, warmed_models, warmed_for>>
    /\ UNCHANGED notPrewarm

\* lines 300-320: the manual trigger, up to the end of the locked block
TriggerPrewarmManual ==
    /\ pw_pc = "ready"
    /\ pw_triggers < MaxTriggers
    /\ pw_triggers' = pw_triggers + 1
    /\ \E resolved_model \in PrewarmModels, backend \in {"mlx", "gguf"},
          system_prompt \in SystemPrompts \cup {""} :
         LET prompt == IF system_prompt # "" THEN system_prompt
                       ELSE DefaultPrompt
         IN  IF backend # "mlx"
             THEN /\ pw_result' = Result("skipped", resolved_model, "")
                  /\ UNCHANGED <<is_warming, pw_workers>>
             ELSE IF Busy(is_warming)
             THEN /\ pw_result' = Result("busy", resolved_model, "")
                  /\ UNCHANGED <<is_warming, pw_workers>>
             ELSE /\ is_warming' = TRUE
                  /\ pw_workers' = Append(pw_workers, Worker(resolved_model, prompt))
                  /\ pw_result' = Result("started", resolved_model,
                                         _compute_system_prompt_hash(prompt))
    /\ UNCHANGED <<pw_pc, last_system_prompt_hash, last_model_used,
                   warmed_models, warmed_for>>
    /\ UNCHANGED notPrewarm

\* lines 134-139 and 322-327: thread.start() of the worker just created
PrewarmThreadStart ==
    /\ pw_pc = "ready"
    /\ \E i \in 1..Len(pw_workers) :
         /\ pw_workers[i].pc = "created"
         /\ pw_workers' = [pw_workers EXCEPT ![i].pc = "running"]
    /\ UNCHANGED <<pw_pc, is_warming, last_system_prompt_hash, last_model_used,
                   warmed_models, warmed_for, pw_result, pw_triggers>>
    /\ UNCHANGED notPrewarm

\* lines 66-90: the body of _prewarm_model_cache; a worker without a system
\* message returns at line 74, any exception is caught at line 89
PrewarmModelCache ==
    /\ pw_pc = "ready"
    /\ \E i \in 1..Len(pw_workers), result \in WarmOutcomes :
         LET w == pw_workers[i]
             outcome == IF result = "warmed" /\ w.prompt = ""
                        THEN "no_system" ELSE result
         IN  /\ w.pc = "running"
             /\ pw_workers' = [pw_workers EXCEPT ![i].pc = "finally",
                                                 ![i].outcome = outcome]
             /\ IF outcome = "warmed"
                THEN /\ warmed_models' = warmed_models \cup {w.model}
                     /\ warmed_for' =
                          [warmed_for EXCEPT ![w.model] =
                             _compute_system_prompt_hash(w.prompt)]
                ELSE UNCHANGED <<warmed_models, warmed_for>>
    /\ UNCHANGED <<pw_pc, is_warming, last_system_prompt_hash, last_model_used,
                   pw_result, pw_triggers>>
    /\ UNCHANGED notPrewarm

\* is_warming after the worker's last step
WarmingAfterUnlessFailed(outcome) == outcome = "failed"
WarmingAfter(outcome) == FALSE

\* lines 92-95: the finally clause, after which the thread ends
PrewarmFinally ==
    /\ pw_pc = "ready"
    /\ \E i \in 1..Len(pw_workers) :
         /\ pw_workers[i].pc = "finally"
         /\ is_warming' = WarmingAfter(pw_workers[i].outcome)
         /\ pw_workers' = SubSeq(pw_workers, 1, i - 1)
                          \o SubSeq(pw_workers, i + 1, Len(pw_workers))
    /\ UNCHANGED <<pw_pc, last_system_prompt_hash, last_model_used,
                   warmed_models, warmed_for, pw_result, pw_triggers>>
    /\ UNCHANGED notPrewarm

\* lines 336-342: clear_prewarm_state
ClearPrewarmState ==
    /\ pw_pc = "ready"
    /\ warmed_models # {} \/ last_system_prompt_hash # "" \/ last_model_used # ""
    /\ warmed_models' = {}
    /\ last_system_prompt_hash' = ""
    /\ last_model_used' = ""
    /\ UNCHANGED <<pw_pc, is_warming, pw_workers, warmed_for, pw_result,
                   pw_triggers>>
    /\ UNCHANGED notPrewarm

\* lines 34-43: the module-level state after import
PrewarmInit ==
    /\ pw_pc = "ready"
    /\ is_warming = FALSE
    /\ last_system_prompt_hash = ""
    /\ last_model_used = ""
    /\ warmed_models = {}
    /\ pw_workers = <<>>
    /\ warmed_for = [m \in PrewarmModels |-> ""]
    /\ pw_result = [kind |-> "", target |-> "", hash |-> "", warmed_hash |-> ""]
    /\ pw_triggers = 0

PrewarmIdle ==
    /\ pw_pc = "idle"
    /\ is_warming = FALSE
    /\ last_system_prompt_hash = ""
    /\ last_model_used = ""
    /\ warmed_models = {}
    /\ pw_workers = <<>>
    /\ warmed_for = [m \in PrewarmModels |-> ""]
    /\ pw_result = [kind |-> "", target |-> "", hash |-> "", warmed_hash |-> ""]
    /\ pw_triggers = 0

-----------------------------------------------------------------------------
(* GGUFAnthropicAdapter._convert_system_to_messages (gguf_adapter.py lines   *)
(* 77-199): messages-protocol messages into chat-completions messages. A     *)
(* text is a sequence of tokens; "\n".join puts a "\n" token between parts.  *)

TextBlock(text) ==
    [type |-> "text", text |-> text, id |-> "", is_str |-> FALSE, parts |-> <<>>]
ImageBlock ==
    [type |-> "image", text |-> <<>>, id |-> "", is_str |-> FALSE, parts |-> <<>>]
ToolUseBlock(id) ==
    [type |-> "tool_use", text |-> <<>>, id |-> id, is_str |-> FALSE, parts |-> <<>>]
\* a tool result whose content is a string
ToolResultStr(id, text) ==
    [type |-> "tool_result", text |-> text, id |-> id, is_str |-> TRUE, parts |-> <<>>]
\* a tool result whose content is a list of blocks
ToolResultList(id, parts) ==
    [type |-> "tool_result", text |-> <<>>, id |-> id, is_str |-> FALSE, parts |-> parts]

ContentBlocks ==
    { TextBlock(<<"a">>),
      ToolUseBlock("t1"),
      ToolResultStr("t1", <<"r">>),
      ToolResultList("t2", <<TextBlock(<<"s">>), ImageBlock>>) }

BlockLists == UNION { [1..n -> ContentBlocks] : n \in 0..MaxBlocks }

\* a message: its content is a string (is_str) or a list of blocks
Message(role, is_str, text, blocks) ==
    [role |-> role, is_str |-> is_str, text |-> text, blocks |-> blocks]

ConvMessages ==
    { Message(role, TRUE, <<"c">>, <<>>) : role \in {"user", "assistant", "system"} }
    \cup { Message(role, FALSE, <<>>, blocks) :
             role \in {"user", "assistant", "system"}, blocks \in BlockLists }

ConvMessageLists == UNION { [1..n -> ConvMessages] : n \in 0..MaxConvMessages }

\* the system argument: None, or a string
ConvSystems == { <<>>, <<"sys">> }

tool_guidance == <<"GUIDANCE">>

OpenAIMessage(role, content, tool_call_id, calls) ==
    [role |-> role, content |-> content, tool_call_id |-> tool_call_id,
     tool_calls |-> calls]

\* "\n".join(parts)
RECURSIVE JoinLines(_)
JoinLines(parts) ==
    IF parts = <<>> THEN <<>>
    ELSE IF Len(parts) = 1 THEN parts[1]
    ELSE parts[1] \o <<"\n">> \o JoinLines(Tail(parts))

\* the texts of the text blocks of a list, in order
RECURSIVE TextsOf(_)
TextsOf(blocks) ==
    IF blocks = <<>> THEN <<>>
    ELSE (IF Head(blocks).type = "text" THEN <<Head(blocks).text>> ELSE <<>>)
         \o TextsOf(Tail(blocks))

\* lines 143-179: the loop over the blocks of one message
RECURSIVE ConvertBlocks(_, _, _, _)
ConvertBlocks(blocks, content_parts, calls, out) ==
    IF blocks = <<>>
    THEN [content_parts |-> content_parts, tool_calls |-> calls, out |-> out]
    ELSE LET block == Head(blocks)
         IN  CASE block.type = "text" ->
                    ConvertBlocks(Tail(blocks), Append(content_parts, block.text),
                                  calls, out)
               [] block.type = "tool_use" ->
                    ConvertBlocks(Tail(blocks), content_parts,
                                  Append(calls, block.id), out)
               [] block.type = "tool_result" ->
                    LET parts == IF block.is_str
                                 THEN Append(content_parts, block.text)
                                 ELSE content_parts \o TextsOf(block.parts)
                    IN  ConvertBlocks(Tail(blocks), <<>>, calls,
                                      Append(out, OpenAIMessage("tool",
                                                 JoinLines(parts), block.id, <<>>)))
               [] OTHER ->
                    ConvertBlocks(Tail(blocks), content_parts, calls, out)

\* lines 120-189: one message
ConvertMessage(msg, out) ==
    IF msg.role = "system"
    THEN Append(out, OpenAIMessage("system",
                        IF msg.is_str THEN msg.text
                        ELSE JoinLines(TextsOf(msg.blocks)), "", <<>>))
    ELSE IF msg.is_str
    THEN Append(out, OpenAIMessage(msg.role, msg.text, "", <<>>))
    ELSE LET r == ConvertBlocks(msg.blocks, <<>>, <<>>, out)
         IN  Append(r.out, OpenAIMessage(msg.role, JoinLines(r.content_parts),
                                         "", r.tool_calls))

RECURSIVE ConvertMessages(_, _)
ConvertMessages(messages, out) ==
    IF messages = <<>> THEN out
    ELSE ConvertMessages(Tail(messages), ConvertMessage(Head(messages), out))

\* lines 91-199
_convert_system_to_messages(system, messages) ==
    ConvertMessages(messages,
        IF system # <<>>
        THEN <<OpenAIMessage("system",
                   tool_guidance \o <<"\n", "\n">> \o system, "", <<>>)>>
        ELSE <<>>)

ConvertInit ==
    /\ cv_pc = "called"
    /\ cv_system \in ConvSystems
    /\ cv_messages \in ConvMessageLists
    /\ openai_messages = <<>>

ConvertIdle ==
    /\ cv_pc = "idle"
    /\ cv_system = <<>>
    /\ cv_messages = <<>>
    /\ openai_messages = <<>>

ConvertCall ==
    /\ cv_pc = "called"
    /\ cv_pc' = "returned"
    /\ openai_messages' = _convert_system_to_messages(cv_system, cv_messages)
    /\ UNCHANGED <<cv_system, cv_messages>>
    /\ UNCHANGED notConvert

-----------------------------------------------------------------------------
(* Specifications *)

\* no response of the stream transducers and parsers is in progress
StreamsIdle == GGUFIdle /\ BridgeIdle /\ MistralIdle /\ ParserIdle /\ GptOssIdle

\* the service components, with component c (if any) at its initial state
ServicesStart(c) ==
    /\ IF c = "sse" THEN SseInit ELSE SseIdle
    /\ IF c = "wrapper" THEN WrapperInit ELSE WrapperIdle
    /\ IF c = "kv" THEN KvInit ELSE KvIdle
    /\ IF c = "alias" THEN AliasInit ELSE AliasIdle
    /\ IF c = "server" THEN ServerInit ELSE ServerIdle
    /\ IF c = "download" THEN DownloadInit ELSE DownloadIdle
    /\ IF c = "prewarm" THEN PrewarmInit ELSE PrewarmIdle
    /\ IF c = "convert" THEN ConvertInit ELSE ConvertIdle

ServicesIdle == ServicesStart("none")

Init == GGUFInit /\ BridgeIdle /\ MistralIdle /\ ParserIdle /\ GptOssIdle /\ ServicesIdle

Next == StartStream \/ ConsumeChunk \/ StreamExhausted \/ StreamInterrupted

Spec == Init /\ [][Next]_vars

BridgeStart == GGUFIdle /\ BridgeInit /\ MistralIdle /\ ParserIdle /\ GptOssIdle /\ ServicesIdle

BridgeNext ==
    \/ ProducerPut \/ ProducerEnd \/ ProducerExcept \/ ProducerSetDone
    \/ ConsumerCheckDone \/ ConsumerCheckEmpty \/ ConsumerGet
    \/ ConsumerTimeout \/ ConsumerResume \/ ConsumerFinish
    \/ ClientClose

\* the producer is a running thread and the client keeps iterating the
\* generator until it ends or the client closes it
SpecBridge ==
    /\ BridgeStart
    /\ [][BridgeNext]_vars
    /\ WF_vars(ProducerStep)
    /\ WF_vars(ConsumerStep)

MistralStart ==
    GGUFIdle /\ BridgeIdle /\ MistralInit /\ ParserIdle /\ GptOssIdle /\ ServicesIdle

MistralNext == MistralConsume \/ MistralFinish

SpecMistral == MistralStart /\ [][MistralNext]_vars

\* one response of either transducer: the messages stream or the Mistral
\* chunk wrapper
DetectStart ==
    \/ GGUFInit /\ MistralIdle /\ BridgeIdle /\ ParserIdle /\ GptOssIdle /\ ServicesIdle
    \/ MistralStart

DetectNext ==
    \/ StartStream \/ ConsumeChunk \/ StreamExhausted \/ StreamInterrupted
    \/ MistralConsume \/ MistralFinish

SpecDetect == DetectStart /\ [][DetectNext]_vars

ParserStart == GGUFIdle /\ BridgeIdle /\ MistralIdle /\ ParserInit /\ GptOssIdle /\ ServicesIdle

ParserNext == ParseOnce \/ ParseAgain

SpecParser == ParserStart /\ [][ParserNext]_vars

GptOssStart == GGUFIdle /\ BridgeIdle /\ MistralIdle /\ ParserIdle /\ GptOssInit /\ ServicesIdle

GptOssNext == GptOssConsume \/ GptOssFinish

SpecGptOss == GptOssStart /\ [][GptOssNext]_vars

SseStart == StreamsIdle /\ ServicesStart("sse")

SseNext == SseReadLine \/ SseExhausted

SpecSse == SseStart /\ [][SseNext]_vars

WrapperStart == StreamsIdle /\ ServicesStart("wrapper")

WrapperNext == WrapperEnter \/ WrapperPass \/ WrapperReturn

SpecWrapper == WrapperStart /\ [][WrapperNext]_vars

KvStart == StreamsIdle /\ ServicesStart("kv")

KvNext ==
    \/ GetCache \/ StoreCache \/ PersistSlot \/ DeletePersisted \/ DeleteLocked
    \/ Clear \/ ClearDelete \/ ClearEnd

SpecKv == KvStart /\ [][KvNext]_vars

\* a call that has begun keeps running: the thread inside clear or
\* delete_persisted takes its next step whenever it can
KvCallStep == DeleteLocked \/ ClearDelete \/ ClearEnd

SpecKvFair == KvStart /\ [][KvNext]_vars /\ WF_vars(KvCallStep)

AliasStart == StreamsIdle /\ ServicesStart("alias")

AliasNext == ResolveAlias

SpecAlias == AliasStart /\ [][AliasNext]_vars

ServerStartState == StreamsIdle /\ ServicesStart("server")

ServerNext == ServerStart \/ ServerStop \/ ServerExits

SpecServer == ServerStartState /\ [][ServerNext]_vars

DownloadStart == StreamsIdle /\ ServicesStart("download")

DownloadNext == StartDownload \/ ThreadStart \/ ThreadBegin \/ ThreadEnd

SpecDownload == DownloadStart /\ [][DownloadNext]_vars

PrewarmStart == StreamsIdle /\ ServicesStart("prewarm")

PrewarmWorkerStep == PrewarmThreadStart \/ PrewarmModelCache \/ PrewarmFinally

PrewarmNext ==
    \/ TriggerPrewarmIfNeeded
    \/ TriggerPrewarmManual
    \/ PrewarmWorkerStep
    \/ ClearPrewarmState

SpecPrewarm == PrewarmStart /\ [][PrewarmNext]_vars

\* the worker thread, once created, is scheduled
SpecPrewarmFair == SpecPrewarm /\ WF_vars(PrewarmWorkerStep)

ConvertStart == StreamsIdle /\ ServicesStart("convert")

SpecConvert == ConvertStart /\ [][ConvertCall]_vars

-----------------------------------------------------------------------------
(* Reading an event sequence *)

\* the texts the adapter writes itself: advisory, start error, interrupt notice
AdapterTexts == {AdvisoryText, StartErrorText, InterruptNotice}

\* concatenation of the text_delta payloads that carry the model's response
RECURSIVE ResponseText(_)
ResponseText(evs) ==
    IF evs = <<>> THEN <<>>
    ELSE LET e == Head(evs)
         IN  (IF e.kind = "text_delta" /\ e.text \notin AdapterTexts
              THEN e.text ELSE <<>>) \o ResponseText(Tail(evs))

EmittedText == ResponseText(events)

\* what the backend has delivered so far: each delta's content, or its
\* reasoning_content when the content is absent
Delivered == SubSeq(backend_text, 1, backend_pos)

\* the text that precedes the first marker
BeforeMarker(text) ==
    LET f == FindFirst(text, FunctionMarker)
        t == FindFirst(text, ToolCallMarker)
        first == IF f = 0 THEN t ELSE IF t = 0 THEN f ELSE IF f < t THEN f ELSE t
    IN  SubSeq(text, 1, first - 1)

Positions(type) == {i \in DOMAIN events : events[i].type = type}
IsBlockEvent(e) ==
    e.type \in {"content_block_start", "content_block_delta", "content_block_stop"}
IsFraming(e) ==
    e.type \in {"content_block_start", "content_block_stop", "message_delta",
                "message_stop"}

\* the block opened at position i is closed, by the next framing event
ClosedNext(i) ==
    \E j \in DOMAIN events :
        /\ j > i
        /\ events[j].type = "content_block_stop"
        /\ events[j].index = events[i].index
        /\ \A k \in (i + 1)..(j - 1) : ~IsFraming(events[k])

StopReasonSent == events[Len(events) - 1].stop_reason
HasToolUseBlock == \E i \in DOMAIN events : events[i].kind = "tool_use"

-----------------------------------------------------------------------------
(* Claims on _generate_stream_async *)

\* C1: once the accumulated text holds a marker, the text emitted for the
\* response is a prefix of what precedes the marker: no character of the
\* marker, and nothing after it, was sent as text.
C1_NoMarkupInText ==
    HasToolMarker(Delivered) => IsPrefix(EmittedText, BeforeMarker(Delivered))

\* C2: a finished event sequence holds exactly one message_stop, as its last
\* event, preceded by the message_delta, and every content block opened is
\* closed by the next framing event (so before the terminal framing); an
\* unfinished one holds no terminal event.
C2_OneTerminalAllClosed ==
    /\ pc # "done" => Positions("message_stop") = {} /\ Positions("message_delta") = {}
    /\ pc = "done" =>
         /\ Positions("message_stop") = {Len(events)}
         /\ Positions("message_delta") = {Len(events) - 1}
         /\ \A i \in Positions("content_block_start") : ClosedNext(i)

C2_Witness ==
    /\ pc = "done" /\ interrupted /\ context_warned
    /\ HasToolUseBlock
    /\ Cardinality(Positions("content_block_start")) >= 3

\* C3: as long as the delivered text holds no marker, the text emitted for
\* the response is exactly the delivered text.
C3_RoundTrip ==
    (pc \in {"streaming", "done"} /\ ~HasToolMarker(Delivered))
        => EmittedText = Delivered

C3_Witness ==
    /\ pc = "done" /\ ~interrupted
    /\ Delivered = <<"a", "<", "t", "o", "o", "l">>
    /\ Cardinality({i \in DOMAIN events : events[i].kind = "text_delta"}) = 3

\* C4: a marker was detected, text was withheld, and no tool call resulted:
\* the withheld text is released, so all the backend's text was emitted
\* (stated for the streams that end normally).
C4_WithheldTextReleased ==
    (pc = "done" /\ ~interrupted /\ in_tool_call_xml /\ tool_calls = <<>>
       /\ DOMAIN streaming_tool_calls = {})
        => EmittedText = Delivered

C7_InterruptedEndsEndTurn ==
    (pc = "done" /\ interrupted) =>
        /\ \E i \in DOMAIN events :
              events[i].kind = "text_delta" /\ events[i].text = InterruptNotice
        /\ \A i \in Positions("content_block_start") : ClosedNext(i)
        /\ events[Len(events)].type = "message_stop"
        /\ StopReasonSent = "end_turn"

\* C10: the stop reason sent is tool_use iff a tool_use block was emitted;
\* otherwise max_tokens if the backend's last finish reason was length;
\* otherwise end_turn.
C10_StopReasonResolved ==
    pc = "done" =>
        /\ StopReasonSent = "tool_use" <=> HasToolUseBlock
        /\ ~HasToolUseBlock =>
              StopReasonSent = (IF finish_reason = "length" THEN "max_tokens"
                                ELSE "end_turn")

C10_Witness ==
    /\ pc = "done" /\ finish_reason = "length"
    /\ HasToolUseBlock /\ StopReasonSent = "tool_use"

-----------------------------------------------------------------------------
(* Claims on generate_stream (the bridge) *)

RECURSIVE UpTo(_)
UpTo(n) == IF n = 0 THEN <<>> ELSE Append(UpTo(n - 1), n)

\* C8: after the client closed the generator the producer thread reads at
\* most one further delta (the one in flight) from the backend.
C8_CloseStopsBackendReads ==
    c_pc = "closed" => backend_reads - reads_at_close <= 1

ConsumerEnded == c_pc \in {"returned", "raised", "closed"}

\* what the consumer has yielded is, in production order and without
\* repetition, the events produced so far minus those still queued; when it
\* ends by itself the producer has finished and every event was yielded; it
\* raises exactly when the producer recorded an exception, and then too
\* after every event was yielded; and it does end.
C9_Delivery ==
    /\ c_pc # "closed" => yielded \o event_queue = UpTo(produced)
    /\ yielded = UpTo(Len(yielded))
    /\ c_pc \in {"after_loop", "returned", "raised"} =>
          /\ p_pc = "exit"
          /\ yielded = UpTo(gen_total)
    /\ c_pc = "raised" => gen_raises
    /\ c_pc = "returned" => ~gen_raises

\* C9: the bridge delivers every event exactly once and in production
\* order under every interleaving (C9_Delivery in every state), and the
\* consuming generator ends.
C9_BridgeDeliversInOrder == [](C9_Delivery) /\ <>(ConsumerEnded)

C9_Witness ==
    /\ c_pc = "raised"
    /\ Len(yielded) = MaxEvents

-----------------------------------------------------------------------------
(* Claims on marker detection across delta boundaries *)

MistralDelivered == SubSeq(m_text, 1, m_pos)

\* C5: however the text is cut into deltas, once the delivered text holds
\* the marker literal the transducer is in its buffering mode: the messages
\* stream has in_tool_call_xml set and the Mistral wrapper has
\* tool_marker_detected set, from the delta that completes the marker on.
C5_SplitMarkerDetected ==
    /\ (pc \in {"streaming", "done"} /\ HasToolMarker(Delivered)) => in_tool_call_xml
    /\ (m_pc \in {"streaming", "done"}
          /\ Contains(MistralDelivered, TOOL_MARKER_START)) => tool_marker_detected

\* the marker arrived in three deltas, the first two already sent on as text
C5_Witness ==
    /\ pc = "streaming" /\ in_tool_call_xml
    /\ chunk_count = 3
    /\ EmittedText = <<"a", "<", "t", "o", "o", "l">>
    /\ Cardinality({i \in DOMAIN events : events[i].kind = "text_delta"}) = 2

-----------------------------------------------------------------------------
(* Claims on the blocks that precede the tool_use blocks *)

\* the first block index of the model's response: the advisory block, when
\* emitted, has index 0
ResponseBase == IF context_warned THEN 1 ELSE 0

FirstToolUse ==
    CHOOSE i \in DOMAIN events :
        /\ events[i].kind = "tool_use"
        /\ \A j \in 1..(i - 1) : events[j].kind # "tool_use"

\* no text of the response was emitted (the advisory is no response text)
ToolOnly ==
    \A i \in DOMAIN events :
        events[i].kind = "text_delta" => events[i].index < ResponseBase

\* C11: in an event sequence that holds tool_use blocks, a text block of the
\* response is opened and closed before the first tool_use block is opened;
\* in a tool-only response it is an empty text block, its open immediately
\* followed by its close, right before the first tool_use block.
C11_TextBlockBeforeToolUse ==
    HasToolUseBlock =>
        /\ \E i, j \in 1..(FirstToolUse - 1) :
             /\ i < j
             /\ events[i].index >= ResponseBase
             /\ events[i] = TextBlockStart(events[i].index)
             /\ events[j] = BlockStop(events[i].index)
        /\ ToolOnly =>
             /\ FirstToolUse > 2
             /\ events[FirstToolUse - 2] = TextBlockStart(ResponseBase)
             /\ events[FirstToolUse - 1] = BlockStop(ResponseBase)

C11_Witness ==
    /\ pc = "done" /\ HasToolUseBlock /\ ToolOnly /\ context_warned
    /\ ~interrupted

-----------------------------------------------------------------------------
(* Claims on the withholding mode of both transducers *)

\* the text carried by a sequence of chunks of the chunk protocol
ChunkText(chunks) == Join([i \in DOMAIN chunks |-> chunks[i].content])

\* the messages stream, marker confirmed: the flag is set and stays set, and
\* the step emits no text of the response
GGUFAbsorbing ==
    HasToolMarker(accumulated_text) =>
        /\ in_tool_call_xml /\ in_tool_call_xml'
        /\ ResponseText(events') = ResponseText(events)

\* the Mistral wrapper, marker confirmed: the flag is set and stays set
MistralFlagKept ==
    Contains(m_accumulated_text, TOOL_MARKER_PARTIAL) =>
        tool_marker_detected /\ tool_marker_detected'

\* C12: once a marker has been confirmed, the flag of the withholding mode
\* never resets in either transducer, the messages stream emits no further
\* text of the response, and the Mistral wrapper yields no text for as long
\* as it consumes the backend stream.
C12_BufferingAbsorbing ==
    [][ /\ GGUFAbsorbing
        /\ MistralFlagKept
        /\ (Contains(m_accumulated_text, TOOL_MARKER_PARTIAL) /\ m_pc' = "streaming")
              => ChunkText(m_out') = ChunkText(m_out) ]_vars

\* C12 as stated: no text at all is yielded for the rest of the response,
\* the step that follows the end of the backend stream included.
C12_NothingAfterMarker ==
    [][ /\ GGUFAbsorbing
        /\ MistralFlagKept
        /\ Contains(m_accumulated_text, TOOL_MARKER_PARTIAL)
              => ChunkText(m_out') = ChunkText(m_out) ]_vars

\* the marker was confirmed by the first k chunks and a later chunk brought
\* text, which was withheld
C12_Witness ==
    /\ m_pc = "streaming" /\ tool_marker_detected
    /\ \E k \in 1..(Len(all_chunks) - 1) :
         /\ Contains(ChunkText(SubSeq(all_chunks, 1, k)), TOOL_MARKER_PARTIAL)
         /\ all_chunks[k + 1].content # <<>>
    /\ Len(m_out) < Len(all_chunks) - 1

-----------------------------------------------------------------------------
(* Claims on the lookback queue of patched_generate_stream *)

\* the characters of the backend's text that precede its n-th chunk
OffsetOf(n) == Len(ChunkText(SubSeq(all_chunks, 1, n - 1)))

\* the n-th backend chunk carries at least one character of the first marker
CarriesMarker(n) ==
    LET start == FindFirst(m_accumulated_text, TOOL_MARKER_PARTIAL)
        stop == start + Len(TOOL_MARKER_PARTIAL) - 1
    IN  /\ start > 0
        /\ \E p \in (OffsetOf(n) + 1)..(OffsetOf(n) + Len(all_chunks[n].content)) :
             start <= p /\ p <= stop

\* C14: when the marker is detected, no chunk that carries a part of it has
\* been yielded, however the marker was cut across consecutive chunks of
\* the backend (every chunk carrying text).
C14_MarkerNeverSplit ==
    (/\ m_pc = "streaming" /\ tool_marker_detected
     /\ \A k \in DOMAIN all_chunks : all_chunks[k].content # <<>>) =>
        \A i \in DOMAIN m_out : ~CarriesMarker(m_out[i].n)

-----------------------------------------------------------------------------
(* Claims on the origin of the emitted tool calls *)

\* the <<id, name>> pairs of the tool_use blocks, in the order emitted
RECURSIVE ToolUseHeads(_)
ToolUseHeads(evs) ==
    IF evs = <<>> THEN <<>>
    ELSE (IF Head(evs).kind = "tool_use" THEN <<Head(evs).text>> ELSE <<>>)
         \o ToolUseHeads(Tail(evs))

\* the <<id, name>> pairs of the complete natively assembled calls
NativeHeads ==
    LET native == NativeToolCalls(streaming_tool_calls, DOMAIN streaming_tool_calls)
    IN  [i \in DOMAIN native |-> <<native[i].id, native[i].name>>]

\* C13: if the backend supplied a native fragment, the tool_use blocks of the
\* finished response are exactly the complete natively assembled calls,
\* whatever the text holds and whatever the text parser would return; when
\* no native call is complete, none is emitted.
C13_NativePrecedence ==
    (pc = "done" /\ DOMAIN streaming_tool_calls # {}) =>
        /\ ToolUseHeads(events) = NativeHeads
        /\ tool_calls = NativeToolCalls(streaming_tool_calls,
                                        DOMAIN streaming_tool_calls)

\* a native call and a marker in the text, in one response
C13_Witness ==
    /\ pc = "done" /\ ~interrupted
    /\ HasToolMarker(accumulated_text)
    /\ Len(NativeHeads) = 1
    /\ HasToolUseBlock

\* no chunk of the wrapper's output carries tool calls
NoToolCallExtracted == \A i \in DOMAIN m_out : m_out[i].tool_calls = <<>>

\* C15: a response of the Mistral wrapper from which no tool call was
\* extracted (no marker seen, or a marker seen and nothing parsed) yields
\* every backend chunk exactly once, in the backend's order.
C15_EveryChunkOnce ==
    (m_pc = "done" /\ NoToolCallExtracted) => m_out = all_chunks

\* the positions of the wrapper's output that carry tool calls
ToolChunkPositions == {i \in DOMAIN m_out : m_out[i].tool_calls # <<>>}

\* C16: when the Mistral wrapper extracts n >= 1 tool calls, its output
\* holds exactly one chunk with tool calls; that chunk carries all n calls,
\* the i-th (0-based, parser order) tagged with index i, has the finish
\* reason tool_calls, is the last chunk of the response, and no other chunk
\* carries a finish reason.
C16_SingleToolChunk ==
    LET parsed == ParseMistralToolCalls(Join(text_parts))
    IN  (m_pc = "done" /\ tool_marker_detected /\ parsed # <<>>) =>
            /\ ToolChunkPositions = {Len(m_out)}
            /\ LET last == m_out[Len(m_out)]
               IN  /\ last.finish = "tool_calls"
                   /\ Len(last.tool_calls) = Len(parsed)
                   /\ \A i \in DOMAIN parsed :
                        /\ last.tool_calls[i].index = i - 1
                        /\ last.tool_calls[i].name = parsed[i].name
                        /\ last.tool_calls[i].arguments = parsed[i].arguments
            /\ \A i \in 1..(Len(m_out) - 1) : m_out[i].finish = ""

\* two calls extracted after a chunk had already been released
C16_Witness ==
    /\ m_pc = "done"
    /\ Len(m_out) = 2
    /\ Len(m_out[2].tool_calls) = 2
    /\ m_out[2].tool_calls[2].name = <<"g">>

-----------------------------------------------------------------------------
(* Claims on parse_mistral_tool_calls *)

\* C17: the parser returns no record whose arguments are empty because
\* nothing could be recovered: a record with the empty mapping is returned
\* only for a text that holds the empty object itself.
C17_NoEmptyArguments ==
    parse_pc \in {"once", "twice"} =>
        \A i \in DOMAIN parse_first :
            parse_first[i].arguments = "{}" => Contains(parse_text, <<"{", "}">>)

\* C19: two calls of parse_mistral_tool_calls on the same text return
\* identical lists of records: the same ids, names and arguments in the
\* same order.
C19_ParseTwiceIdentical ==
    parse_pc = "twice" => parse_first = parse_second

-----------------------------------------------------------------------------
(* Claims on the arguments of the natively assembled calls *)

\* the natively assembled entries whose argument text is no JSON
UnparsableNative ==
    {idx \in DOMAIN streaming_tool_calls :
        /\ streaming_tool_calls[idx].arguments # <<>>
        /\ ~JsonLoads(streaming_tool_calls[idx].arguments).ok}

\* C18: no tool_use block is emitted for a natively assembled call whose
\* argument text failed to parse as JSON.
C18_UnparsableNativeDropped ==
    pc = "done" =>
        \A idx \in UnparsableNative :
            ~\E i \in DOMAIN events :
                /\ events[i].kind = "tool_use"
                /\ events[i].text[1] = streaming_tool_calls[idx].id

-----------------------------------------------------------------------------
(* Claims on the display text of the GPT-OSS stream wrapper *)

\* the display text delivered to the client: the content of the chunks
OssDisplayText == ChunkText(o_out)

\* the backend's text holds a final segment
HasFinalSegment == Contains(o_text, <<CHANNEL, "final", MESSAGE>>)

\* the tokens that occur in internal segments only: their headers, the
\* reasoning, the arguments of a call
InternalTokens ==
    {"analysis", "commentary", "to=functions.f", "json", "t", "{", "k:1", "x", "}"}

\* the backend's text is made of internal segments only
OnlyInternalSegments ==
    /\ o_text # <<>>
    /\ ~HasFinalSegment
    /\ \A k \in DOMAIN o_text : o_text[k] # "p"

\* C20: for channel-dialect output the display text is the content of the
\* final segment when there is one and empty when there are internal
\* segments only, and no content of an internal segment is ever delivered
\* as display text.
C20_DisplayIsFinalOnly ==
    o_pc = "done" =>
        /\ HasFinalSegment => OssDisplayText = <<"d">>
        /\ OnlyInternalSegments => OssDisplayText = <<>>
        /\ \A k \in DOMAIN OssDisplayText : OssDisplayText[k] \notin InternalTokens

\* the positions of the wrapper's output that carry a finish reason
OssFinishPositions == {i \in DOMAIN o_out : o_out[i].finish # ""}

\* the backend signaled truncation
OssBackendTruncated ==
    \E k \in DOMAIN buffered_chunks : buffered_chunks[k].finish = "length"

\* C21: the chunk sequence of the GPT-OSS wrapper for a non-empty backend
\* stream ends with the one chunk that carries a finish reason: tool_calls
\* if a tool call was emitted, length if the backend signaled truncation,
\* the default reason stop otherwise.
C21_OssFinishReason ==
    (o_pc = "done" /\ buffered_chunks # <<>>) =>
        /\ OssFinishPositions = {Len(o_out)}
        /\ o_out[Len(o_out)].finish =
             IF \E i \in DOMAIN o_out : o_out[i].tool_calls # <<>> THEN "tool_calls"
             ELSE IF OssBackendTruncated THEN "length"
             ELSE "stop"

-----------------------------------------------------------------------------
(* Claims on the non-streaming response *)

\* the names and arguments of a sequence of tool calls, in order
CallHeads(calls) ==
    [i \in DOMAIN calls |-> <<calls[i].name, calls[i].arguments>>]

\* C22: a stream that ran to completion conveys what _generate_async returns
\* for the same backend output (content, reasoning_content, structured tool
\* calls, finish reason) and the same behaviour of the text parser: the
\* same display text, the same tool calls in order, the same stop reason
\* (stated for the outputs whose structured calls all have a name and
\* arguments).
C22_NonStreamingSameAsStreaming ==
    (/\ pc = "done" /\ ~interrupted /\ ~start_failed
     /\ \A idx \in DOMAIN streaming_tool_calls :
          /\ streaming_tool_calls[idx].name # ""
          /\ streaming_tool_calls[idx].arguments # <<>>) =>
        \E outcome \in ParserOutcomes :
            LET response == GenerateAsync(content_sent, reasoning_sent,
                                          streaming_tool_calls, finish_reason,
                                          outcome)
            IN  /\ response.text = EmittedText
                /\ CallHeads(response.tool_calls) = CallHeads(tool_calls)
                /\ response.stop_reason = StopReasonSent

-----------------------------------------------------------------------------
(* Claims on the SSE line loop of GGUFBackend.generate_stream *)

DoneLine == <<DataPrefix>> \o DoneData

\* a data line whose payload decodes
Decodable(line) ==
    /\ line # <<>>
    /\ Head(line) = DataPrefix
    /\ line # DoneLine
    /\ SseJsonLoads(Tail(line)).ok

\* the lines received before the first "[DONE]" line
BeforeDone(lines) ==
    LET stops == {i \in 1..Len(lines) : lines[i] = DoneLine}
    IN  IF stops = {} THEN lines
        ELSE SubSeq(lines, 1, (CHOOSE i \in stops : \A j \in stops : i <= j) - 1)

\* the payload values of the decodable data lines, in order
DecodedValues(lines) ==
    LET kept == SelectSeq(lines, Decodable)
    IN  [i \in 1..Len(kept) |-> SseJsonLoads(Tail(kept[i])).value]

\* C23: the chunks yielded are the decodable data lines received before the
\* "[DONE]" line, each once and in order, whatever undecodable lines are
\* interleaved; nothing received after "[DONE]" is yielded
C23_DecodableLinesYieldedInOrder ==
    /\ sse_out = DecodedValues(BeforeDone(SubSeq(sse_lines, 1, sse_pos)))
    /\ sse_pc = "done" => sse_out = DecodedValues(BeforeDone(sse_lines))

\* a finished response: two chunks yielded around an undecodable line, and a
\* decodable line after "[DONE]"
C23_Witness ==
    /\ sse_pc = "done"
    /\ Len(sse_lines) = 5
    /\ Decodable(sse_lines[1])
    /\ sse_lines[2] = <<DataPrefix, "{", "c1">>
    /\ Decodable(sse_lines[3])
    /\ sse_lines[4] = DoneLine
    /\ Decodable(sse_lines[5])
    /\ Len(sse_out) = 2

-----------------------------------------------------------------------------
(* Claims on the start-of-message framing *)

\* C24: the first event of every event sequence is message_start; it is
\* emitted once, and every content_block event comes after it, the advisory
\* block and the error notice of a failed backend start included
C24_MessageStartFirst ==
    /\ pc \in {"streaming", "done"} => events # <<>>
    /\ events # <<>> =>
         /\ events[1].type = "message_start"
         /\ Positions("message_start") = {1}
         /\ \A i \in DOMAIN events : IsBlockEvent(events[i]) => i > 1

\* a response with the advisory block whose backend start failed
C24_Witness ==
    /\ pc = "done"
    /\ context_warned
    /\ start_failed
    /\ \E i, j \in DOMAIN events :
         /\ i < j
         /\ events[i].text = AdvisoryText
         /\ events[j].text = StartErrorText

-----------------------------------------------------------------------------
(* Claims on the traffic the dialect wrappers leave alone *)

\* the request is none of the wrapper's business
OtherTraffic ==
    \/ w_wrapper = "gpt_oss" /\ ~IsGptOssModel(w_model)
    \/ w_wrapper = "mistral" /\ ~IsMistralModel(w_model)
    \/ w_wrapper = "mistral" /\ IsMistralModel(w_model) /\ NotTools(w_tools)

\* C25: for a request whose model is not of the wrapper's family, or a
\* Mistral-family request without tools, the wrapper yields exactly the
\* chunks of the original generate_stream, unmodified and in order, each as
\* soon as the original has produced it
C25_OtherTrafficUntouched ==
    (OtherTraffic /\ w_pc # "called") =>
        /\ w_pc \in {"passing", "done"}
        /\ w_out = SubSeq(w_source, 1, w_produced)
        /\ w_pc = "done" => w_out = w_source

\* a Mistral-family request without tools, two chunks passed through
C25_Witness ==
    /\ w_pc = "done"
    /\ w_wrapper = "mistral"
    /\ IsMistralModel(w_model)
    /\ w_tools = [given |-> TRUE, list |-> <<>>]
    /\ Len(w_out) = 2
    /\ w_out[1] # w_out[2]

-----------------------------------------------------------------------------
(* Claims on KVCacheManager *)

\* C26: the number of slots in memory never exceeds max_slots, whatever
\* sequence of get_cache, store_cache, persist_slot, delete_persisted and
\* clear has run, a get_cache that loads an entry from disk included
C26_SlotsWithinCapacity == Len(slots) <= max_slots

\* position of a key in the order of recent use
Rank(order, key) == CHOOSE i \in DOMAIN order : order[i] = key

\* C27: a slot that store_cache evicts for good is the least recently used
\* one: no slot that stays in memory was stored or hit longer ago
C27_EvictionIsLRU ==
    [][\A e \in TokensOf(kv_evicted') \ TokensOf(slots'),
          k \in TokensOf(slots) \ TokensOf(kv_evicted') :
            Rank(recency, e) < Rank(recency, k)]_vars

\* C29: a clear that has taken the lock ends and releases it, also when
\* persisted entries exist
C29_ClearTerminates ==
    (kv_pc = "clearing") ~> (kv_pc = "ready" /\ kv_lock = "")

-----------------------------------------------------------------------------
(* Claims on resolve_alias_with_backend *)

\* the aliases whose key is the model id / is a wildcard that matches it
ExactAliases == {i \in DOMAIN _MODEL_ALIASES : _MODEL_ALIASES[i].key = a_model_id}
WildcardAliases ==
    {i \in DOMAIN _MODEL_ALIASES :
        /\ IsWildcard(_MODEL_ALIASES[i].key)
        /\ FnMatch(a_model_id, _MODEL_ALIASES[i].key)}

IsClaudeId == a_model_id # <<>> /\ Head(a_model_id) = ClaudePrefix

\* the model of the tier of the model id (<<>>: none configured)
TierModel ==
    _ROUTING_CONFIG.tiers[DetectClaudeTier(a_model_id, _ROUTING_CONFIG.patterns)].model

FallbackAlias ==
    IF AliasGet(_MODEL_ALIASES, <<"qwen3-coder-30b">>) # <<>>
    THEN AliasGet(_MODEL_ALIASES, <<"qwen3-coder-30b">>)
    ELSE AliasGet(_MODEL_ALIASES, <<"qwen">>)

\* C28: the priority of resolve_alias_with_backend: the exact alias key, then
\* a matching wildcard alias, then for a claude- id the enabled tier model,
\* then default_model, then the fallback alias; an id that matches no alias
\* and is no claude- id is returned unchanged
C28_ResolutionPriority ==
    a_pc = "returned" =>
      LET resolved == a_result.resolved
          routed == ExactAliases = {} /\ WildcardAliases = {} /\ IsClaudeId
          by_tier == _ROUTING_CONFIG.enabled /\ TierModel # <<>>
      IN  /\ ExactAliases # {} =>
                \E i \in ExactAliases : resolved = ExpandPath(_MODEL_ALIASES[i].value)
          /\ (ExactAliases = {} /\ WildcardAliases # {}) =>
                \E i \in WildcardAliases : resolved = ExpandPath(_MODEL_ALIASES[i].value)
          /\ (routed /\ by_tier) => resolved = ExpandPath(TierModel)
          /\ (routed /\ ~by_tier /\ _ROUTING_CONFIG.default_model # <<>>) =>
                resolved = ExpandPath(_ROUTING_CONFIG.default_model)
          /\ (routed /\ ~by_tier /\ _ROUTING_CONFIG.default_model = <<>>
                /\ FallbackAlias # <<>>) =>
                resolved = ExpandPath(FallbackAlias)
          /\ (ExactAliases = {} /\ WildcardAliases = {} /\ ~IsClaudeId) =>
                resolved = a_model_id

\* a claude- id with an exact alias listed after a wildcard alias that also
\* matches it, and a tier model configured: the exact alias is returned
C28_Witness ==
    /\ a_pc = "returned"
    /\ IsClaudeId
    /\ \E i \in WildcardAliases, j \in ExactAliases :
         /\ i < j
         /\ _MODEL_ALIASES[i].value # _MODEL_ALIASES[j].value
         /\ a_result.resolved = ExpandPath(_MODEL_ALIASES[j].value)
    /\ _ROUTING_CONFIG.enabled
    /\ TierModel # <<>>

-----------------------------------------------------------------------------
(* Claims on GGUFServerManager *)

\* C30: at most one subprocess spawned by the manager is running, and when
\* one is running self.process refers to it, whatever starts (failed ones
\* included) and stops have been called
C30_NoUntrackedServer ==
    /\ Cardinality(alive) <= 1
    /\ alive # {} => process \in alive


\* C31: a start that raises while a server for another model is running
\* leaves that server running, with current_model and port still its own
C31_FailedStartKeepsServer ==
    [][(/\ last_call'.op = "start"
        /\ last_call'.raised
        /\ IsRunning
        /\ current_model # last_call'.model)
       => /\ process' = process
          /\ process \in alive'
          /\ current_model' = current_model
          /\ port' = port]_vars


\* the key of the latest store_cache or get_cache hit
LatestUsed == recency'[Len(recency')]

\* C32: a store_cache under a key that is already in memory evicts no other
\* key: every key that was in memory is still there
C32_RestoreEvictsNothing ==
    [][(/\ kv_evicted' # <<>>
        /\ recency' # <<>>
        /\ LatestUsed \in TokensOf(slots))
       => TokensOf(slots) \subseteq TokensOf(slots')]_vars

-----------------------------------------------------------------------------
(* Claims on ModelManager.start_download *)

\* C33: at most one download per repository at a time: for every repo at
\* most one download thread has been started and has not ended
C33_OneDownloadPerRepo ==
    \A r \in Repos : dl_created[r] + dl_running[r] <= 1

-----------------------------------------------------------------------------
(* C34: trigger_prewarm_if_needed skips the target model (lines 126-128)     *)
(* only when the last successful warm-up of that model was for the system-   *)
(* prompt hash of the request.                                               *)
C34_SkipOnlyWhenWarmedForHash ==
    pw_result.kind = "skip" => pw_result.warmed_hash = pw_result.hash

(* C35: at most one pre-warm worker exists at any time, whichever way the    *)
(* two triggers and the worker interleave.                                   *)
C35_OneWorker == Len(pw_workers) <= 1

\* a trigger was turned away while the worker was running
C35_Witness ==
    /\ Len(pw_workers) = 1
    /\ pw_workers[1].pc = "running"
    /\ pw_result.kind = "busy"

(* C36: whenever is_warming is true it becomes false again, whatever the     *)
(* outcome of the warm-up.                                                   *)
C36_WarmingEnds == is_warming ~> ~is_warming

\* a warm-up that failed has ended and is_warming is false again
C36_Witness ==
    /\ pw_result.kind = "started"
    /\ pw_workers = <<>>
    /\ ~is_warming
    /\ pw_result.target \in PrewarmModels
    /\ warmed_for[pw_result.target] # pw_result.hash

-----------------------------------------------------------------------------
(* Native tool-call fragments, read from the history of the fragments        *)

\* the fragments received for index i, in arrival order
FragmentsOf(i) ==
    LET ForIndex(f) == f.index = i
    IN  SelectSeq(fragments_received, ForIndex)

RECURSIVE JoinedArguments(_)
JoinedArguments(frags) ==
    IF frags = <<>> THEN <<>>
    ELSE Head(frags).arguments \o JoinedArguments(Tail(frags))

\* the last non-empty value of a field in a fragment sequence, "" if none
RECURSIVE LastNonEmpty(_, _)
LastNonEmpty(frags, field) ==
    IF frags = <<>> THEN ""
    ELSE IF frags[Len(frags)][field] # "" THEN frags[Len(frags)][field]
    ELSE LastNonEmpty(SubSeq(frags, 1, Len(frags) - 1), field)

ReceivedIndices ==
    {fragments_received[k].index : k \in DOMAIN fragments_received}

\* the (index, id, name) of the calls with a name and arguments, ascending
RECURSIVE AscendingCalls(_)
AscendingCalls(idxs) ==
    IF idxs = {} THEN <<>>
    ELSE LET i == CHOOSE x \in idxs : \A y \in idxs : x <= y
             frags == FragmentsOf(i)
             name == LastNonEmpty(frags, "name")
             id == LastNonEmpty(frags, "id")
         IN  (IF name # "" /\ JoinedArguments(frags) # <<>>
              THEN <<<<IF id # "" THEN id ELSE GeneratedId, name>>>>
              ELSE <<>>) \o AscendingCalls(idxs \ {i})

\* the id and name of the tool_use blocks emitted, in emission order
RECURSIVE EmittedToolUses(_)
EmittedToolUses(evs) ==
    IF evs = <<>> THEN <<>>
    ELSE (IF Head(evs).type = "content_block_start" /\ Head(evs).kind = "tool_use"
          THEN <<Head(evs).text>> ELSE <<>>) \o EmittedToolUses(Tail(evs))

(* C37: for each index the assembled call has the argument fragments of     *)
(* that index joined in arrival order and the last non-empty name and id    *)
(* received for it, however the indices interleave; the tool_use blocks of  *)
(* a completed response that received fragments come in ascending index    *)
(* order.                                                                   *)
C37_AssembledPerIndex ==
    pc \in {"streaming", "done"} =>
        /\ DOMAIN streaming_tool_calls = ReceivedIndices
        /\ \A i \in ReceivedIndices :
             LET frags == FragmentsOf(i)
                 name == LastNonEmpty(frags, "name")
                 id == LastNonEmpty(frags, "id")
             IN  /\ streaming_tool_calls[i].arguments = JoinedArguments(frags)
                 /\ name # "" => streaming_tool_calls[i].name = name
                 /\ id # "" => streaming_tool_calls[i].id = id
        /\ (pc = "done" /\ ~interrupted /\ ReceivedIndices # {}) =>
             EmittedToolUses(events) = AscendingCalls(ReceivedIndices)

\* index 1 arrived before index 0, index 0 was renamed, both were emitted
C37_Witness ==
    /\ pc = "done"
    /\ ~interrupted
    /\ Len(fragments_received) = 3
    /\ fragments_received[1].index = 1
    /\ fragments_received[2].name = "f"
    /\ EmittedToolUses(events) = <<<<"call_c", "h">>, <<"call_b", "g">>>>

-----------------------------------------------------------------------------
(* What the conversion owes each message, read from the arguments            *)

\* the text of a tool result block itself
OwnText(block) ==
    IF block.is_str THEN block.text ELSE JoinLines(TextsOf(block.parts))

\* one "tool" message per tool result block of a block list, in block order
RECURSIVE ToolMessagesOf(_)
ToolMessagesOf(blocks) ==
    IF blocks = <<>> THEN <<>>
    ELSE (IF Head(blocks).type = "tool_result"
          THEN <<OpenAIMessage("tool", OwnText(Head(blocks)), Head(blocks).id, <<>>)>>
          ELSE <<>>) \o ToolMessagesOf(Tail(blocks))

\* the tool messages owed to a message list
RECURSIVE OwedToolMessages(_)
OwedToolMessages(messages) ==
    IF messages = <<>> THEN <<>>
    ELSE (IF Head(messages).role # "system" /\ ~Head(messages).is_str
          THEN ToolMessagesOf(Head(messages).blocks) ELSE <<>>)
         \o OwedToolMessages(Tail(messages))

\* the content owed to the user/assistant entry of each message, in order
RECURSIVE OwedEntryContents(_)
OwedEntryContents(messages) ==
    IF messages = <<>> THEN <<>>
    ELSE (IF Head(messages).role = "system" THEN <<>>
          ELSE IF Head(messages).is_str THEN <<Head(messages).text>>
          ELSE <<JoinLines(TextsOf(Head(messages).blocks))>>)
         \o OwedEntryContents(Tail(messages))

RECURSIVE ToolMessagesIn(_)
ToolMessagesIn(out) ==
    IF out = <<>> THEN <<>>
    ELSE (IF Head(out).role = "tool" THEN <<Head(out)>> ELSE <<>>)
         \o ToolMessagesIn(Tail(out))

RECURSIVE EntryContentsIn(_)
EntryContentsIn(out) ==
    IF out = <<>> THEN <<>>
    ELSE (IF Head(out).role \in {"user", "assistant"}
          THEN <<Head(out).content>> ELSE <<>>)
         \o EntryContentsIn(Tail(out))

(* C38: every tool result block of a message yields one "tool" message with *)
(* the block's tool_use_id and exactly the block's own text, in block       *)
(* order, and the text blocks of the message make up the content of the     *)
(* message's own user/assistant entry.                                      *)
C38_ToolResultsOneToOne ==
    cv_pc = "returned" =>
        /\ ToolMessagesIn(openai_messages) = OwedToolMessages(cv_messages)
        /\ EntryContentsIn(openai_messages) = OwedEntryContents(cv_messages)

====
